---- MODULE Spec2Model ----
(***************************************************************************)
(* Model of the Sentinel-2 tile worker (Sentinel2GridLayoutWorker.js):     *)
(* the message handler, the tile loaders (createTile / unloadTile), the    *)
(* STAC catalog with its batching timer, the reader cache and the token    *)
(* refresh loop; and of the map's handler of the worker's messages         *)
(* (Sentinel2GridLayer.handleWorkerMessage).                               *)
(*                                                                         *)
(* The worker is single threaded.  One action of the model is one piece of *)
(* code that runs without suspension: from the arrival of an event (a      *)
(* message, a timer, a network answer) or from the resumption of an await  *)
(* to the next await.  A continuation of an await on an already settled    *)
(* promise is a microtask: it runs before any further event is taken,      *)
(* which the guard NoMicrotask of the event actions expresses.             *)
(***************************************************************************)
EXTENDS Integers, Sequences, FiniteSets, TLC

\* ------------------------------------------------------------------ bounds
\* createTile messages received over a run
MaxTasks == 2
\* successful token fetches over a run
MaxTokens == 1
\* scenes in #stacCache when findBestItem is studied alone
MaxCache == 3
\* cellSize.x = cellSize.y, origCellImage.width = origCellImage.height and
\* the scenes of one tile when warpCellImage is studied alone
DstSize == 2
SrcSize == 3
MaxScenes == 2
\* the highest value of a band when calculateNdvi is studied alone
MaxBand == 8
\* fetches of the token endpoint when updateMspcSasToken is studied alone
MaxFetches == 5

\* ------------------------------------------------------- program constants
Layers == {"Sentinel2RgbCloudless", "Sentinel2RgbLatest",
           "Sentinel2NdviCloudless", "Sentinel2NdviLatest"}

\* the layer types that have a loader in the worker
LoaderLayers == {"Sentinel2RgbCloudless", "Sentinel2RgbLatest",
                 "Sentinel2NdviCloudless"}

\* the layers on which the map sends a second createTile
TwoCallLayers == {"Sentinel2RgbCloudless"}

NdviLayers == {"Sentinel2NdviCloudless"}

\* withRetry(fn, retries = 3, delay = 500)
Retries == 3
Delay == 500

\* for (let i = 0; ratio < bboxCoverageThr && i < 2; i++)
FetchRounds == 2

\* setTimeout(updateMspcSasToken, 1000) | (updateMspcSasToken, 45 * 60 * 1000)
TokenRetryDelay == 1000
TokenRefreshDelay == 2700000

\* ------------------------------------------------------------ the geometry
\* Tile keys and their windows: unit squares of a 2 x 2 block of tiles.
Keys == {"k1", "k2"}

KeyWindow(k) ==
  IF k = "k1" THEN [top |-> 1, left |-> 0, bottom |-> 0, right |-> 1]
              ELSE [top |-> 2, left |-> 1, bottom |-> 1, right |-> 2]

\* Areas are counted in units of 1/200 of a tile (0.5 %).
CellArea == 200

\* The plane is cut into regions; every footprint is a union of regions.
\* r1 and r2 make up the tile of k1, r3 and r4 the tile of k2.
Regions == {"r1", "r2", "r3", "r4"}

RegionCell(r) == IF r \in {"r3", "r4"} THEN [lat |-> 1, lng |-> 1]
                                       ELSE [lat |-> 0, lng |-> 0]

RegionArea(r) == CASE r = "r1" -> 80
                   [] r = "r2" -> 120
                   [] r = "r3" -> 1
                   [] r = "r4" -> 199

Scenes == {"sA", "sB"}

\* the scenes a #stacCache can hold when findBestItem is studied alone
CatalogScenes == {"sA", "sB", "sC", "sD"}

\* item.geometry.coordinates: sA covers 40 % of k1's tile and 0.5 % of
\* k2's, sB covers 60 % of k1's tile and 99.5 % of k2's; sC lies inside
\* sA and sD inside sB
Footprint(s) == CASE s = "sA" -> {"r1", "r3"}
                  [] s = "sB" -> {"r2", "r4"}
                  [] s = "sC" -> {"r3"}
                  [] s = "sD" -> {"r4"}

\* item.properties.datetime, as a rank (2 = most recent); the value is an
\* ISO string in the program
DateTime(s) == CASE s = "sA" -> 2
                 [] s = "sB" -> 1
                 [] s = "sC" -> 2
                 [] s = "sD" -> 0

\* item.properties.datetime.split('T')[0]
DateOf(s) == CASE s = "sA" -> "2024-03-03"
               [] s = "sB" -> "2024-02-02"
               [] s = "sC" -> "2024-03-03"
               [] s = "sD" -> "2024-01-01"

RECURSIVE AreaOf(_)
AreaOf(rs) == IF rs = {} THEN 0
              ELSE LET r == CHOOSE x \in rs : TRUE
                   IN RegionArea(r) + AreaOf(rs \ {r})

\* turf.bboxPolygon(bbox): the regions inside the window
RegionsIn(w) == {r \in Regions :
                   /\ RegionCell(r).lat >= w.bottom
                   /\ RegionCell(r).lat + 1 <= w.top
                   /\ RegionCell(r).lng >= w.left
                   /\ RegionCell(r).lng + 1 <= w.right}

\* turf.area(bboxPolygon)
WindowArea(w) == (w.top - w.bottom) * (w.right - w.left) * CellArea

\* ------------------------------------------------ ratios (exact fractions)
\* A ratio computed against window w is kept as num / (100 * WindowArea(w)).
Ratio(num, den) == [num |-> num, den |-> den]

ZeroRatio == Ratio(0, 1)

\* ratio < bboxCoverageThr, bboxCoverageThr = 1 - 1e-4
BelowCoverageThr(r) == r.num * 10000 < 9999 * r.den

\* ratio > 0.01
AboveLowThr(r) == r.num * 100 > r.den

\* the test of the loop if it let every candidate through
GainsAnything(new, cur) == TRUE

\* new - cur > 0.001 (both against the same window)
GainsMargin(new, cur) == (new.num - cur.num) * 1000 > cur.den

\* Math.round(intersectionRatio*100)/100
RoundedRatio(area, warea) ==
  Ratio(((200 * area + warea) \div (2 * warea)) * warea, 100 * warea)

\* turf.area(polygon) / bboxArea
ExactRatio(area, warea) == Ratio(100 * area, 100 * warea)

\* ------------------------------------------------------------ findBestItem
\* The comparator of tilesIndexes.sort: datetime is a string, so
\* b.datetime - a.datetime is NaN, which sort takes as 0; equal datetimes
\* are ordered by intersectRatio descending.
Compare(a, b) ==
  IF DateTime(a.item) # DateTime(b.item) THEN 0
  ELSE IF b.ratio.num > a.ratio.num THEN 1
  ELSE IF b.ratio.num < a.ratio.num THEN -1
  ELSE 0

\* insert x into the sorted sequence s, after the elements it does not
\* precede (a stable insertion)
RECURSIVE InsertSorted(_, _)
InsertSorted(s, x) ==
  IF s = <<>> THEN <<x>>
  ELSE IF Compare(s[Len(s)], x) > 0
       THEN Append(InsertSorted(SubSeq(s, 1, Len(s) - 1), x), s[Len(s)])
       ELSE Append(s, x)

RECURSIVE SortCandidates(_)
SortCandidates(s) ==
  IF s = <<>> THEN <<>>
  ELSE InsertSorted(SortCandidates(SubSeq(s, 1, Len(s) - 1)), s[Len(s)])

\* the candidates of the cache, in the cache's insertion order
RECURSIVE Candidates(_, _)
Candidates(cache, w) ==
  IF cache = <<>> THEN <<>>
  ELSE LET s == Head(cache)
           inter == Footprint(s) \cap RegionsIn(w)
           rest == Candidates(Tail(cache), w)
       IN IF inter = {} THEN rest
          ELSE <<[item |-> s, poly |-> inter,
                  ratio |-> RoundedRatio(AreaOf(inter), WindowArea(w))]>>
               \o rest

\* the greedy loop of findBestItem over the sorted candidates c[i..]; steps
\* lists its iterations: the candidate, the running polygon and ratio it
\* met, the ratio of the union, and whether it was pushed
RECURSIVE Greedy(_, _, _, _, _)
Greedy(c, i, w, sel, cur) ==
  IF i > Len(c) \/ ~BelowCoverageThr(cur.ratio)
  THEN [items |-> sel, ratio |-> cur.ratio, steps |-> <<>>]
  ELSE LET poly == cur.poly \cup c[i].poly
           new == ExactRatio(AreaOf(poly), WindowArea(w))
           accepted == GainsMargin(new, cur.ratio)
           rest == IF accepted
                   THEN Greedy(c, i + 1, w, Append(sel, c[i].item),
                               [poly |-> poly, ratio |-> new])
                   ELSE Greedy(c, i + 1, w, sel, cur)
       IN [rest EXCEPT !.steps =
             <<[item |-> c[i].item, poly |-> c[i].poly, covered |-> cur.poly,
                cur |-> cur.ratio, new |-> new, accepted |-> accepted]>> \o @]

\* findBestItem(topLeft, bottomRight): [isNull, items, ratio], with the
\* sorted tilesIndexes and the iterations of the loop
findBestItem(cache, w) ==
  LET c == SortCandidates(Candidates(cache, w))
  IN IF c = <<>>
     THEN [isNull |-> TRUE, items |-> <<>>, ratio |-> ZeroRatio,
           sorted |-> <<>>, steps |-> <<>>]
     ELSE LET g == Greedy(c, 2, w, <<c[1].item>>,
                          [poly |-> c[1].poly, ratio |-> c[1].ratio])
          IN [isNull |-> FALSE, items |-> g.items, ratio |-> g.ratio,
              sorted |-> c, steps |-> g.steps]

\* updateCachedItems if it set every feature anew, the entry of a cached id
\* being taken out and put back at the end
RECURSIVE updateCachedItemsReinserts(_, _)
updateCachedItemsReinserts(cache, features) ==
  IF features = <<>> THEN cache
  ELSE LET f == Head(features)
           kept == {j \in 1..Len(cache) : cache[j] # f}
           nth(n) == CHOOSE j \in kept : Cardinality({i \in kept : i < j}) = n - 1
           c == [n \in 1..Cardinality(kept) |-> cache[nth(n)]]
       IN updateCachedItemsReinserts(Append(c, f), Tail(features))

\* updateCachedItems: insert the features not yet cached, by id, in order
RECURSIVE updateCachedItems(_, _)
updateCachedItems(cache, features) ==
  IF features = <<>> THEN cache
  ELSE LET f == Head(features)
           c == IF \E j \in 1..Len(cache) : cache[j] = f
                THEN cache ELSE Append(cache, f)
       IN updateCachedItems(c, Tail(features))

\* the answers of the search service: any set of scenes, most recent first
SearchAnswers == {<<>>, <<"sA">>, <<"sB">>, <<"sA", "sB">>}

\* --------------------------------------------------------------- the state
VARIABLES
  tasks,            \* the createTile calls received so far, in order
  visibleCellKeys,  \* per loader: #visibleCellKeys
  cellRgbCache,     \* per loader: keys of #cellRgbCache
  cellDates,        \* per loader: #cellDates (key -> set of dates)
  abortControllers, \* per loader: key -> call owning the controller, 0 = none
  tiffCache,        \* per loader: url -> token of the cached entry, -1 = none
  stacCache,        \* per loader's catalog: #stacCache in insertion order
  pendingQueries,   \* per loader's catalog: #pendingQueries (calls)
  batching,         \* per loader's catalog: #batching
  batchTimers,      \* per loader's catalog: armed batching timers
  batches,          \* per loader's catalog: batch searches in flight
  readers,          \* the promises of withRetry(fromUrl)(href)
  mspcSasToken,     \* 0 = null
  tokenRuns,        \* runs of updateMspcSasToken awaiting their fetch
  tokenTimers,      \* delays of the armed setTimeout(updateMspcSasToken)
  effects,          \* what the last step did: messages posted, cache writes
  tileInfo          \* per layer of the map: #tileInfo (key -> the createTile
                    \* whose doneCallback is registered, 0 = none)

vars == <<tasks, visibleCellKeys, cellRgbCache, cellDates, abortControllers,
          tiffCache, stacCache, pendingQueries, batching, batchTimers,
          batches, readers, mspcSasToken, tokenRuns, tokenTimers, effects,
          tileInfo>>

loaderVars == <<visibleCellKeys, cellRgbCache, cellDates, abortControllers>>
catalogVars == <<stacCache, pendingQueries, batching, batchTimers, batches>>
readerVars == <<tiffCache, readers>>
tokenVars == <<mspcSasToken, tokenRuns, tokenTimers>>

\* stacItem.assets.visual.href | assets.B04.href, assets.B08.href
AssetNames(l) == IF l \in NdviLayers THEN <<"B04", "B08">> ELSE <<"visual">>

Urls == Scenes \X {"visual", "B04", "B08"}

UrlOf(l, s, b) == <<s, AssetNames(l)[b]>>

NoDates == [k \in Keys |-> [has |-> FALSE, dates |-> {}]]

Init ==
  /\ tasks = <<>>
  /\ visibleCellKeys = [l \in LoaderLayers |-> {}]
  /\ cellRgbCache = [l \in LoaderLayers |-> {}]
  /\ cellDates = [l \in LoaderLayers |-> NoDates]
  /\ abortControllers = [l \in LoaderLayers |-> [k \in Keys |-> 0]]
  /\ tiffCache = [l \in LoaderLayers |-> [u \in Urls |-> -1]]
  /\ stacCache = [l \in LoaderLayers |-> <<>>]
  /\ pendingQueries = [l \in LoaderLayers |-> <<>>]
  /\ batching = [l \in LoaderLayers |-> FALSE]
  /\ batchTimers = [l \in LoaderLayers |-> 0]
  /\ batches = [l \in LoaderLayers |-> {}]
  /\ readers = [rk \in {} |-> 0]
  /\ mspcSasToken = 0
  /\ tokenRuns = 1
  /\ tokenTimers = <<>>
  /\ effects = <<>>
  /\ tileInfo = [l \in Layers |-> [k \in Keys |-> 0]]

\* Sentinel2GridLayer.handleWorkerMessage for the messages of a step, in the
\* order posted (a message reaches the map before the worker takes its next
\* event): a 'done' whose key has an entry in #tileInfo of the layer of its
\* layerType draws, calls the entry's doneCallback and deletes the entry
RECURSIVE handleWorkerMessage(_, _)
handleWorkerMessage(info, msgs) ==
  IF msgs = <<>> THEN info
  ELSE LET pkg == Head(msgs)
       IN IF pkg.kind = "done" /\ info[pkg.call.layer][pkg.key] # 0
          THEN handleWorkerMessage(
                 [info EXCEPT ![pkg.call.layer][pkg.key] = 0], Tail(msgs))
          ELSE handleWorkerMessage(info, Tail(msgs))

\* the map side of a step of the worker
MapHandles == tileInfo' = handleWorkerMessage(tileInfo, effects')

\* a createTile call as received
NewTask(l, k) ==
  [layer |-> l, key |-> k, pc |-> "start",
   aborted |-> FALSE,        \* controller.signal.aborted
   win |-> KeyWindow(k),     \* pkg.coordsTopLeft, pkg.coordsBottomRight
   i |-> 0,                  \* the loop index of fetchLatestS2
   isNull |-> FALSE, stacItems |-> <<>>, fullCoverage |-> FALSE,
   idx |-> 0,                \* the scene of loadAndDrawTile's loop
   band |-> 0,               \* the asset being opened or read
   tok |-> -1,               \* the token of the reader promise awaited
   done |-> <<>>,            \* the 'done' messages the call posted so far
   searches |-> <<>>,        \* the searches its fetchLatestS2 took part in
   stacFails |-> 0,          \* the failed ones among them
   startFull |-> FALSE,      \* its first findBestItem reached the threshold
   catalog |-> ""]           \* what fetchLatestS2 returned to it

\* a call that has returned: its arguments and locals are gone
Gone(tk) == [NewTask(tk.layer, tk.key) EXCEPT !.pc = "finished"]

\* an effect of call t, whose record is tk when the step that has the effect
\* begins
Effect(kind, t, tk, e) ==
  [kind |-> kind, by |-> t, key |-> tk.key, error |-> e, ms |-> 0, call |-> tk]

\* await new Promise(r => setTimeout(r, delay)) in withRetry
Wait(t, key, ms) ==
  [kind |-> "wait", by |-> t, key |-> key, error |-> "null", ms |-> ms,
   call |-> 0]

\* withRetry(fn)(...) as a function of the outcomes of fn's attempts in
\* order: the result, the number of attempts and the delays waited. The
\* timers of the delays are not steps of their own: nothing reads the
\* program's state between a failed attempt and the start of the next
Outcomes == {"ok", "fail", "abort"}

\* withRetry if it waited after every failure, the last included
RECURSIVE withRetryWaitsAlways(_, _, _, _)
withRetryWaitsAlways(outcomes, attempt, delay, waits) ==
  IF attempt < Retries
  THEN LET o == outcomes[attempt + 1]
       IN IF o = "ok"
          THEN [result |-> "ok", attempts |-> attempt + 1, waits |-> waits,
                last |-> "null"]
          ELSE IF o = "abort"
          THEN [result |-> "AbortError", attempts |-> attempt + 1,
                waits |-> waits, last |-> o]
          ELSE withRetryWaitsAlways(outcomes, attempt + 1, delay * 2,
                                    Append(waits, delay))
  ELSE [result |-> "error", attempts |-> attempt, waits |-> waits,
        last |-> outcomes[attempt]]

\* withRetry without the test of err.name: an AbortError is retried like
\* any other error
RECURSIVE withRetryRetriesAbort(_, _, _, _)
withRetryRetriesAbort(outcomes, attempt, delay, waits) ==
  IF attempt < Retries
  THEN LET o == outcomes[attempt + 1]
       IN IF o = "ok"
          THEN [result |-> "ok", attempts |-> attempt + 1, waits |-> waits,
                last |-> "null"]
          ELSE IF attempt + 1 < Retries
          THEN withRetryRetriesAbort(outcomes, attempt + 1, delay * 2,
                                     Append(waits, delay))
          ELSE withRetryRetriesAbort(outcomes, attempt + 1, delay, waits)
  ELSE [result |-> IF outcomes[attempt] = "abort" THEN "AbortError" ELSE "error",
        attempts |-> attempt, waits |-> waits, last |-> outcomes[attempt]]

\* last is the error thrown (lastError, or the AbortError)
RECURSIVE withRetry(_, _, _, _)
withRetry(outcomes, attempt, delay, waits) ==
  IF attempt < Retries
  THEN LET o == outcomes[attempt + 1]
       IN IF o = "ok"
          THEN [result |-> "ok", attempts |-> attempt + 1, waits |-> waits,
                last |-> "null"]
          ELSE IF o = "abort"
          THEN [result |-> "AbortError", attempts |-> attempt + 1,
                waits |-> waits, last |-> o]
          ELSE IF attempt + 1 < Retries
          THEN withRetry(outcomes, attempt + 1, delay * 2, Append(waits, delay))
          ELSE withRetry(outcomes, attempt + 1, delay, waits)
  ELSE [result |-> "error", attempts |-> attempt, waits |-> waits,
        last |-> outcomes[attempt]]

\* the sequences of outcomes one call of the wrapper consumes: failures,
\* then a success or an AbortError, or Retries failures
Runs ==
  {[j \in 1..n |-> IF j < n THEN "fail" ELSE o] : n \in 1..Retries, o \in Outcomes}
    \ {[j \in 1..n |-> "fail"] : n \in 1..(Retries - 1)}

\* fromUrl is given no signal: none of its attempts ends in AbortError
OpenRuns == {run \in Runs : \A j \in 1..Len(run) : run[j] # "abort"}

\* what a run leaves behind besides its result: the attempts after the
\* first (the first is made when the wrapper is called) and the waits
RunEffects(kind, t, tk, r) ==
  [j \in 1..(r.attempts - 1) |-> Effect(kind, t, tk, "null")]
    \o [j \in 1..Len(r.waits) |-> Wait(t, tk.key, r.waits[j])]

\* self.postMessage({type: "done", key, error, cellRGB})
Post(t, tk, e) == Effect("done", t, [tk EXCEPT !.done = Append(@, e)], e)

Settled(rk) == rk \in DOMAIN readers /\ readers[rk] \in {"open", "failed"}

ReaderKey(tk) == <<tk.layer, UrlOf(tk.layer, tk.stacItems[tk.idx], tk.band), tk.tok>>

\* a continuation that runs before the next event is taken
MicrotaskReady(tk) ==
  \/ tk.pc \in {"batchResolved", "catalogReturn"}
  \/ tk.pc = "waitOpen" /\ Settled(ReaderKey(tk))

NoMicrotask == \A t \in 1..Len(tasks) : ~MicrotaskReady(tasks[t])

Put(ts, t, tk) == [ts EXCEPT ![t] = tk]

\* ------------------------------------------------- pieces of createTile
\* the catch block of createTile: a 'done' message carrying the error
Catch(ts, t, tk, e, fx) ==
  /\ tasks' = Put(ts, t, Gone(tk))
  /\ effects' = Append(fx, Post(t, tk, e))

\* createTile returns without posting
Return(ts, t, tk, fx) ==
  /\ tasks' = Put(ts, t, Gone(tk))
  /\ effects' = fx

\* a reader promise can still be observed while a call awaits it or while
\* #tiffCache maps its url to it under the current token (a lookup under
\* another token deletes the entry); any other has no further effect
Held(ts, tc, token, rk) ==
  \/ tc[rk[1]][rk[2]] = rk[3] /\ rk[3] = token
  \/ \E t \in 1..Len(ts) : ts[t].pc = "waitOpen" /\ ReaderKey(ts[t]) = rk

Live(ts, tc, token, rs) ==
  [rk \in {r \in DOMAIN rs : Held(ts, tc, token, r)} |-> rs[rk]]

\* openGeoTiffFile if it never looked into #tiffCache
openGeoTiffFileUncached(ts, t, tk, fx) ==
  LET l == tk.layer
      u == UrlOf(l, tk.stacItems[tk.idx], tk.band)
      waiting == [tk EXCEPT !.pc = "waitOpen", !.tok = mspcSasToken]
  IN /\ tasks' = Put(ts, t, waiting)
     /\ tiffCache' = [tiffCache EXCEPT ![l][u] = mspcSasToken]
     /\ readers' = Live(tasks', tiffCache', mspcSasToken,
                       (<<l, u, mspcSasToken>> :> "opening") @@ readers)
     /\ effects' = Append(fx, Effect("fromUrl", t, tk, "null"))

\* openGeoTiffFile if it returned whatever #tiffCache holds for the url
openGeoTiffFileAnyToken(ts, t, tk, fx) ==
  LET l == tk.layer
      u == UrlOf(l, tk.stacItems[tk.idx], tk.band)
  IN IF tiffCache[l][u] # -1
     THEN /\ tasks' = Put(ts, t, [tk EXCEPT !.pc = "waitOpen",
                                            !.tok = tiffCache[l][u]])
          /\ tiffCache' = tiffCache
          /\ readers' = readers
          /\ effects' = fx
     ELSE openGeoTiffFileUncached(ts, t, tk, fx)

\* openGeoTiffFile(url) for scene tk.idx, asset tk.band, then the await
openGeoTiffFile(ts, t, tk, fx) ==
  LET l == tk.layer
      u == UrlOf(l, tk.stacItems[tk.idx], tk.band)
      waiting == [tk EXCEPT !.pc = "waitOpen", !.tok = mspcSasToken]
  IN /\ tasks' = Put(ts, t, waiting)
     /\ IF tiffCache[l][u] # -1 /\ tiffCache[l][u] = mspcSasToken
        THEN /\ tiffCache' = tiffCache
             /\ readers' = Live(tasks', tiffCache, mspcSasToken, readers)
             /\ effects' = fx
        ELSE /\ tiffCache' = [tiffCache EXCEPT ![l][u] = mspcSasToken]
             /\ readers' = Live(tasks', tiffCache', mspcSasToken,
                               (<<l, u, mspcSasToken>> :> "opening") @@ readers)
             /\ effects' = Append(fx, Effect("fromUrl", t, tk, "null"))

\* the reader variables when a call stops awaiting a reader
ReleaseReader ==
  /\ tiffCache' = tiffCache
  /\ readers' = Live(tasks', tiffCache, mspcSasToken, readers)

\* createTile after loadAndDrawTile returned: the abort check, then the
\* await of createImageBitmap(warpedImage)
AfterDraw(ts, t, tk, fx) ==
  IF tk.aborted THEN Return(ts, t, tk, fx)
  ELSE /\ tasks' = Put(ts, t, [tk EXCEPT !.pc = "waitBitmap", !.idx = 0,
                                         !.band = 0, !.tok = -1])
       /\ effects' = fx

\* the head of loadAndDrawTile's loop for scene tk.idx
EnterScene(ts, t, tk, fx) ==
  IF tk.idx > Len(tk.stacItems) \/ tk.aborted
  THEN /\ AfterDraw(ts, t, tk, fx)
       /\ UNCHANGED readerVars
  ELSE openGeoTiffFile(ts, t, [tk EXCEPT !.band = 1], fx)

\* the third argument of updateCachedItems if the loop never set it
DisableBatchingNever(i) == FALSE

\* updateCachedItems(topLeft, bottomRight, i > 0)
DisableBatching(i) == i > 0

\* the return of fetchLatestS2
FetchResult(tk, fb) ==
  LET none == ~AboveLowThr(fb.ratio)
  IN [tk EXCEPT !.pc = "catalogReturn",
                !.i = 0,
                !.catalog = IF none THEN "null"
                            ELSE IF BelowCoverageThr(fb.ratio) THEN "partial"
                            ELSE "complete",
                !.isNull = none,
                !.stacItems = IF none THEN <<>> ELSE fb.items,
                !.fullCoverage = ~none /\ ~BelowCoverageThr(fb.ratio)]

\* fetchLatestS2 if its loop condition were i < 2 alone, without the test
\* of the coverage ratio
FetchRoundUntested(ts, t, tk, cache) ==
  LET l == tk.layer
      fb == findBestItem(cache, tk.win)
  IN IF tk.i < FetchRounds
     THEN IF DisableBatching(tk.i)
          THEN /\ tasks' = Put(ts, t, [tk EXCEPT !.pc = "waitSearch",
                                         !.searches = Append(@, "unbatched")])
               /\ UNCHANGED <<pendingQueries, batching, batchTimers>>
          ELSE /\ tasks' = Put(ts, t, [tk EXCEPT !.pc = "waitBatch",
                                         !.searches = Append(@, "batched")])
               /\ pendingQueries' = [pendingQueries EXCEPT ![l] = Append(@, t)]
               /\ batching' = [batching EXCEPT ![l] = TRUE]
               /\ batchTimers' = IF batching[l] THEN batchTimers
                                 ELSE [batchTimers EXCEPT ![l] = @ + 1]
     ELSE /\ tasks' = Put(ts, t, FetchResult(tk, fb))
          /\ UNCHANGED <<pendingQueries, batching, batchTimers>>

\* fetchLatestS2StacItems if it armed a timer at every push, whatever
\* #batching says
FetchRoundArmsAlways(ts, t, tk, cache) ==
  LET l == tk.layer
      fb == findBestItem(cache, tk.win)
  IN IF BelowCoverageThr(fb.ratio) /\ tk.i < FetchRounds
     THEN IF DisableBatching(tk.i)
          THEN /\ tasks' = Put(ts, t, [tk EXCEPT !.pc = "waitSearch",
                                         !.searches = Append(@, "unbatched")])
               /\ UNCHANGED <<pendingQueries, batching, batchTimers>>
          ELSE /\ tasks' = Put(ts, t, [tk EXCEPT !.pc = "waitBatch",
                                         !.searches = Append(@, "batched")])
               /\ pendingQueries' = [pendingQueries EXCEPT ![l] = Append(@, t)]
               /\ batching' = [batching EXCEPT ![l] = TRUE]
               /\ batchTimers' = [batchTimers EXCEPT ![l] = @ + 1]
     ELSE /\ tasks' = Put(ts, t, FetchResult(tk, fb))
          /\ UNCHANGED <<pendingQueries, batching, batchTimers>>

\* fetchLatestS2 at the head of its loop with index tk.i, the cache being
\* `cache`: another search, or the return
FetchRound(ts, t, tk, cache) ==
  LET l == tk.layer
      fb == findBestItem(cache, tk.win)
  IN IF BelowCoverageThr(fb.ratio) /\ tk.i < FetchRounds
     THEN IF DisableBatching(tk.i)
          THEN /\ tasks' = Put(ts, t, [tk EXCEPT !.pc = "waitSearch",
                                         !.searches = Append(@, "unbatched")])
               /\ UNCHANGED <<pendingQueries, batching, batchTimers>>
          ELSE /\ tasks' = Put(ts, t, [tk EXCEPT !.pc = "waitBatch",
                                         !.searches = Append(@, "batched")])
               /\ pendingQueries' = [pendingQueries EXCEPT ![l] = Append(@, t)]
               /\ batching' = [batching EXCEPT ![l] = TRUE]
               /\ batchTimers' = IF batching[l] THEN batchTimers
                                 ELSE [batchTimers EXCEPT ![l] = @ + 1]
     ELSE /\ tasks' = Put(ts, t, FetchResult(tk, fb))
          /\ UNCHANGED <<pendingQueries, batching, batchTimers>>

\* createTile if it registered its AbortController before looking into
\* #cellRgbCache
createTileRegistersFirst(ts, t, tk) ==
  LET l == tk.layer
      k == tk.key
  IN /\ visibleCellKeys' = [visibleCellKeys EXCEPT ![l] = @ \cup {k}]
     /\ abortControllers' = [abortControllers EXCEPT ![l][k] = t]
     /\ IF k \in cellRgbCache[l]
        THEN /\ tasks' = Put(ts, t, [tk EXCEPT !.pc = "cacheDecode"])
             /\ UNCHANGED <<pendingQueries, batching, batchTimers>>
        ELSE FetchRound(ts, t,
               [tk EXCEPT !.startFull =
                  ~BelowCoverageThr(findBestItem(stacCache[l], tk.win).ratio)],
               stacCache[l])

\* createTile(pkg) up to its first await
createTile(ts, t, tk) ==
  LET l == tk.layer
      k == tk.key
  IN /\ visibleCellKeys' = [visibleCellKeys EXCEPT ![l] = @ \cup {k}]
     /\ IF k \in cellRgbCache[l]
        THEN /\ tasks' = Put(ts, t, [tk EXCEPT !.pc = "cacheDecode"])
             /\ UNCHANGED <<abortControllers, pendingQueries, batching, batchTimers>>
        ELSE /\ abortControllers' = [abortControllers EXCEPT ![l][k] = t]
             /\ FetchRound(ts, t,
                  [tk EXCEPT !.startFull =
                     ~BelowCoverageThr(findBestItem(stacCache[l], tk.win).ratio)],
                  stacCache[l])

\* ---------------------------------------------------------- the messages
\* self.onmessage, type "createTile"; the map shows one layer at a time,
\* and sends a second createTile on the layers in TwoCallLayers
OnCreateTile(l, k) ==
  /\ NoMicrotask
  /\ Len(tasks) < MaxTasks
  /\ Len(tasks) > 0 => l = tasks[1].layer /\ l \in TwoCallLayers
  /\ LET t == Len(tasks) + 1
         ts == Append(tasks, NewTask(l, k))
     IN IF l \notin LoaderLayers
        THEN /\ tasks' = Put(ts, t, [ts[t] EXCEPT !.pc = "noLoader"])
             /\ UNCHANGED <<loaderVars, pendingQueries, batching, batchTimers>>
        ELSE createTile(ts, t, ts[t])
  /\ effects' = <<>>
  /\ tileInfo' = [tileInfo EXCEPT ![l][k] = Len(tasks) + 1]
  /\ UNCHANGED <<cellRgbCache, cellDates, stacCache, batches, readerVars,
                 tokenVars>>

\* self.onmessage, type "unloadTile"; the map unloads tiles it created
OnUnloadTile(l, k) ==
  /\ NoMicrotask
  /\ k \in visibleCellKeys[l]
  /\ visibleCellKeys' = [visibleCellKeys EXCEPT ![l] = @ \ {k}]
  /\ LET c == abortControllers[l][k]
     IN IF c # 0
        THEN /\ tasks' = IF tasks[c].pc = "finished" \/ tasks[c].aborted
                         THEN tasks
                         ELSE [tasks EXCEPT ![c].aborted = TRUE]
             /\ abortControllers' = [abortControllers EXCEPT ![l][k] = 0]
        ELSE UNCHANGED <<tasks, abortControllers>>
  /\ effects' = <<>>
  /\ tileInfo' = [tileInfo EXCEPT ![l][k] = 0]
  /\ UNCHANGED <<cellRgbCache, cellDates, catalogVars, readerVars, tokenVars>>

\* getImagesDates if it went through every key of #cellDates
getImagesDatesOfAllKeys(l) ==
  UNION {cellDates[l][k].dates : k \in {x \in Keys : cellDates[l][x].has}}

\* getImagesDates(): imagesDates, the dates recorded for the keys of
\* #visibleCellKeys that have an entry in #cellDates
getImagesDates(l) ==
  UNION {cellDates[l][k].dates :
           k \in {x \in visibleCellKeys[l] : cellDates[l][x].has}}

\* self.onmessage, type "getImagesDates"; the map asks the layer it shows
OnGetImagesDates(l) ==
  /\ NoMicrotask
  /\ Len(tasks) > 0 => l = tasks[1].layer
  /\ effects' = <<[kind |-> "getImagesDates", by |-> 0, key |-> "",
                   error |-> "null", ms |-> 0, call |-> NewTask(l, ""),
                   imagesDates |-> getImagesDates(l)]>>
  /\ UNCHANGED <<tasks, tileInfo, loaderVars, catalogVars, readerVars, tokenVars>>

\* --------------------------------------------------------- the catalog
Max(a, b) == IF a >= b THEN a ELSE b
Min(a, b) == IF a <= b THEN a ELSE b

\* the merge loop if it left the first query's window as it was
MergeWindowsFirstOnly(w, ws) == w

\* the merge loop of the batching timer over the queries' windows
RECURSIVE MergeWindows(_, _)
MergeWindows(w, ws) ==
  IF ws = <<>> THEN w
  ELSE MergeWindows([top |-> Max(w.top, Head(ws).top),
                     left |-> Min(w.left, Head(ws).left),
                     bottom |-> Min(w.bottom, Head(ws).bottom),
                     right |-> Max(w.right, Head(ws).right)], Tail(ws))

\* the callback of an armed batching timer, up to its await: it takes the
\* whole list, merges the windows into the first query's topLeft /
\* bottomRight objects (the first caller's own window objects) and sends
\* one search; on an empty list it throws at pendingQueriesBatch[0].topLeft
BatchTimer(l) ==
  /\ NoMicrotask
  /\ batchTimers[l] > 0
  /\ batchTimers' = [batchTimers EXCEPT ![l] = @ - 1]
  /\ LET batch == pendingQueries[l]
         first == batch[1]
         merged == MergeWindows(tasks[first].win,
                                [j \in 1..Len(batch) |-> tasks[batch[j]].win])
     IN IF batch = <<>>
        THEN UNCHANGED <<tasks, batches>>
        ELSE /\ tasks' = [tasks EXCEPT ![first].win = merged]
             /\ batches' = [batches EXCEPT ![l] = @ \cup {[callers |-> batch,
                                                            bbox |-> merged]}]
  /\ pendingQueries' = [pendingQueries EXCEPT ![l] = <<>>]
  /\ batching' = [batching EXCEPT ![l] = FALSE]
  /\ effects' = <<>>
  /\ UNCHANGED <<loaderVars, stacCache, readerVars, tokenVars>>
  /\ MapHandles

InBatch(b, t) == \E j \in 1..Len(b.callers) : b.callers[j] = t

\* query.resolveFunc(stacItems) for caller t of batch b
Resolved(t, b, features) ==
  [kind |-> "resolved", by |-> t, key |-> tasks[t].key, error |-> "null",
   ms |-> 0, call |-> tasks[t], batch |-> b, features |-> features]

\* the callback after the search if it resolved the first query only
BatchAnswerFirstOnly(l, b, features) ==
  /\ NoMicrotask
  /\ b \in batches[l]
  /\ batches' = [batches EXCEPT ![l] = @ \ {b}]
  /\ stacCache' = [stacCache EXCEPT ![l] = updateCachedItems(@, features)]
  /\ tasks' = [tasks EXCEPT ![b.callers[1]].pc = "batchResolved"]
  /\ effects' = <<Resolved(b.callers[1], b, features)>>
  /\ UNCHANGED <<loaderVars, pendingQueries, batching, batchTimers, readerVars, tokenVars>>
  /\ MapHandles

\* the search of a batch answers: every query's resolveFunc is called with
\* the features and every caller's updateCachedItems inserts them
BatchAnswer(l, b, features) ==
  /\ NoMicrotask
  /\ b \in batches[l]
  /\ batches' = [batches EXCEPT ![l] = @ \ {b}]
  /\ stacCache' = [stacCache EXCEPT ![l] = updateCachedItems(@, features)]
  /\ tasks' = [t \in 1..Len(tasks) |->
                 IF InBatch(b, t) THEN [tasks[t] EXCEPT !.pc = "batchResolved"]
                 ELSE tasks[t]]
  /\ effects' = [j \in 1..Len(b.callers) |-> Resolved(b.callers[j], b, features)]
  /\ UNCHANGED <<loaderVars, pendingQueries, batching, batchTimers, readerVars, tokenVars>>
  /\ MapHandles

\* the search of a batch fails: the timer callback throws at its await and
\* no resolveFunc is called
BatchFailure(l, b) ==
  /\ NoMicrotask
  /\ b \in batches[l]
  /\ batches' = [batches EXCEPT ![l] = @ \ {b}]
  /\ tasks' = [t \in 1..Len(tasks) |->
                 IF InBatch(b, t) THEN [tasks[t] EXCEPT !.stacFails = @ + 1]
                 ELSE tasks[t]]
  /\ effects' = <<>>
  /\ UNCHANGED <<loaderVars, stacCache, pendingQueries, batching, batchTimers, readerVars,
                 tokenVars>>
  /\ MapHandles

\* fetchLatestS2 resumes after its batched search
ResumeAfterBatch(t) ==
  /\ tasks[t].pc = "batchResolved"
  /\ FetchRound(tasks, t, [tasks[t] EXCEPT !.i = @ + 1], stacCache[tasks[t].layer])
  /\ effects' = <<>>
  /\ UNCHANGED <<loaderVars, stacCache, batches, readerVars, tokenVars>>
  /\ MapHandles

\* the unbatched search of a call answers
SearchAnswer(t, features) ==
  /\ tasks[t].pc = "waitSearch"
  /\ NoMicrotask
  /\ LET l == tasks[t].layer
         cache == updateCachedItems(stacCache[l], features)
     IN /\ stacCache' = [stacCache EXCEPT ![l] = cache]
        /\ FetchRound(tasks, t, [tasks[t] EXCEPT !.i = @ + 1], cache)
  /\ effects' = <<>>
  /\ UNCHANGED <<loaderVars, batches, readerVars, tokenVars>>
  /\ MapHandles

\* the unbatched search of a call fails: fetchLatestS2 throws into createTile
SearchFailure(t) ==
  /\ tasks[t].pc = "waitSearch"
  /\ NoMicrotask
  /\ Catch(tasks, t, [tasks[t] EXCEPT !.stacFails = @ + 1], "StacError", <<>>)
  /\ UNCHANGED <<loaderVars, catalogVars, readerVars, tokenVars>>
  /\ MapHandles

\* createTile resumes after fetchLatestS2: the dates, then loadAndDrawTile
CatalogReturn(t) ==
  /\ tasks[t].pc = "catalogReturn"
  /\ LET tk == tasks[t]
         drawing == [tk EXCEPT !.idx = 1, !.searches = <<>>, !.stacFails = 0,
                               !.startFull = FALSE, !.catalog = ""]
     IN IF tk.isNull
        THEN \* for (const stacItem of null)
             /\ Catch(tasks, t, tk, "TypeError", <<>>)
             /\ UNCHANGED <<cellDates, readerVars>>
        ELSE /\ cellDates' = [cellDates EXCEPT ![tk.layer][tk.key] =
                   [has |-> TRUE,
                    dates |-> {DateOf(tk.stacItems[j]) : j \in 1..Len(tk.stacItems)}]]
             /\ EnterScene(tasks, t, drawing, <<Effect("datesSet", t, tk, "null")>>)
  /\ UNCHANGED <<visibleCellKeys, cellRgbCache, abortControllers, catalogVars,
                 tokenVars>>
  /\ MapHandles

\* ------------------------------------------------------------ the readers
\* withRetry(fromUrl)(href) settles after the attempts of `run`
OpenSettles(rk, run) ==
  /\ readers[rk] = "opening"
  /\ NoMicrotask
  /\ LET r == withRetry(run, 0, Delay, <<>>)
         opener == [NewTask(rk[1], "") EXCEPT !.pc = "withRetry", !.tok = rk[3]]
     IN /\ readers' = [readers EXCEPT ![rk] =
                          IF r.result = "ok" THEN "open" ELSE "failed"]
        /\ effects' = RunEffects("fromUrl", 0, opener, r)
  /\ UNCHANGED <<tasks, tileInfo, loaderVars, catalogVars, tiffCache, tokenVars>>

\* loadAndDrawTile resumes after await openGeoTiffFile
OpenDone(t) ==
  /\ tasks[t].pc = "waitOpen"
  /\ Settled(ReaderKey(tasks[t]))
  /\ LET tk == tasks[t]
     IN IF readers[ReaderKey(tk)] = "failed"
        THEN /\ Catch(tasks, t, tk, "OpenError", <<>>)
             /\ ReleaseReader
        ELSE IF tk.aborted
        THEN /\ AfterDraw(tasks, t, tk, <<>>)
             /\ ReleaseReader
        ELSE IF tk.band < Len(AssetNames(tk.layer))
        THEN openGeoTiffFile(tasks, t, [tk EXCEPT !.band = @ + 1], <<>>)
        ELSE \* getCellRgbImage: the first readRasters
             /\ tasks' = Put(tasks, t, [tk EXCEPT !.pc = "waitRead", !.band = 1,
                                                  !.tok = -1])
             /\ effects' = <<Effect("readRasters", t, tk, "null")>>
             /\ ReleaseReader
  /\ UNCHANGED <<loaderVars, catalogVars, tokenVars>>
  /\ MapHandles

\* getCellRgbImage if it returned after the last read without calling
\* warpCellImage
ReadSettlesUnwarped(t, run) ==
  /\ tasks[t].pc = "waitRead"
  /\ NoMicrotask
  /\ (\E j \in 1..Len(run) : run[j] = "abort") => tasks[t].aborted
  /\ LET tk == tasks[t]
         r == withRetry(run, 0, Delay, <<>>)
         fx == RunEffects("readRasters", t, tk, r)
     IN IF r.result # "ok"
        THEN /\ Catch(tasks, t, tk,
                      IF r.result = "error" THEN "ReadError" ELSE r.result, fx)
             /\ UNCHANGED readerVars
        ELSE IF tk.band < Len(AssetNames(tk.layer))
        THEN /\ tasks' = Put(tasks, t, [tk EXCEPT !.band = @ + 1])
             /\ effects' = Append(fx, Effect("readRasters", t, tk, "null"))
             /\ UNCHANGED readerVars
        ELSE EnterScene(tasks, t, [tk EXCEPT !.idx = @ + 1], fx)
  /\ UNCHANGED <<loaderVars, catalogVars, tokenVars>>
  /\ MapHandles

\* withRetry(readRasters)({..., signal}) settles after the attempts of
\* `run`; an attempt ends in AbortError only if the signal is aborted. On
\* success the next band is read, or the scene is warped into warpedImage
\* (warpCellImage has no await: it runs to its end) and the loop of
\* loadAndDrawTile goes on; an error is thrown into createTile
ReadSettles(t, run) ==
  /\ tasks[t].pc = "waitRead"
  /\ NoMicrotask
  /\ (\E j \in 1..Len(run) : run[j] = "abort") => tasks[t].aborted
  /\ LET tk == tasks[t]
         r == withRetry(run, 0, Delay, <<>>)
         fx == RunEffects("readRasters", t, tk, r)
     IN IF r.result # "ok"
        THEN /\ Catch(tasks, t, tk,
                      IF r.result = "error" THEN "ReadError" ELSE r.result, fx)
             /\ UNCHANGED readerVars
        ELSE IF tk.band < Len(AssetNames(tk.layer))
        THEN /\ tasks' = Put(tasks, t, [tk EXCEPT !.band = @ + 1])
             /\ effects' = Append(fx, Effect("readRasters", t, tk, "null"))
             /\ UNCHANGED readerVars
        ELSE EnterScene(tasks, t, [tk EXCEPT !.idx = @ + 1],
                        Append(fx, Effect("warpCellImage", t, tk, "null")))
  /\ UNCHANGED <<loaderVars, catalogVars, tokenVars>>
  /\ MapHandles

\* ------------------------------------------------- delivery and caching
\* createTile if it stored the render whatever the catalog reported
BitmapAnswerAnyCoverage(t) ==
  /\ tasks[t].pc = "waitBitmap"
  /\ NoMicrotask
  /\ LET tk == tasks[t]
     IN /\ effects' = <<Post(t, tk, "ok")>>
        /\ tasks' = Put(tasks, t, [tk EXCEPT !.pc = "waitBlob",
                                             !.done = Append(@, "ok")])
  /\ UNCHANGED <<loaderVars, catalogVars, readerVars, tokenVars>>
  /\ MapHandles

\* createImageBitmap(warpedImage) resolves: the 'done' message is posted,
\* then, on full coverage, the await of convertToBlob
BitmapAnswer(t) ==
  /\ tasks[t].pc = "waitBitmap"
  /\ NoMicrotask
  /\ LET tk == tasks[t]
     IN /\ effects' = <<Post(t, tk, "ok")>>
        /\ tasks' = Put(tasks, t,
             IF tk.fullCoverage
             THEN [tk EXCEPT !.pc = "waitBlob", !.done = Append(@, "ok")]
             ELSE Gone(tk))
  /\ UNCHANGED <<loaderVars, catalogVars, readerVars, tokenVars>>
  /\ MapHandles

\* createImageBitmap(warpedImage) rejects
BitmapFailure(t) ==
  /\ tasks[t].pc = "waitBitmap"
  /\ NoMicrotask
  /\ Catch(tasks, t, tasks[t], "BitmapError", <<>>)
  /\ UNCHANGED <<loaderVars, catalogVars, readerVars, tokenVars>>
  /\ MapHandles

\* convertToBlob resolves: #cellRgbCache.set(pkg.key, blob)
BlobAnswer(t) ==
  /\ tasks[t].pc = "waitBlob"
  /\ NoMicrotask
  /\ cellRgbCache' = [cellRgbCache EXCEPT ![tasks[t].layer] = @ \cup {tasks[t].key}]
  /\ Return(tasks, t, tasks[t], <<Effect("cacheSet", t, tasks[t], "null")>>)
  /\ UNCHANGED <<visibleCellKeys, cellDates, abortControllers, catalogVars,
                 readerVars, tokenVars>>
  /\ MapHandles

\* convertToBlob rejects, inside the try block
BlobFailure(t) ==
  /\ tasks[t].pc = "waitBlob"
  /\ NoMicrotask
  /\ Catch(tasks, t, tasks[t], "BlobError", <<>>)
  /\ UNCHANGED <<loaderVars, catalogVars, readerVars, tokenVars>>
  /\ MapHandles

\* the cache hit: createImageBitmap(blob) resolves and 'done' is posted
CacheDecodeAnswer(t) ==
  /\ tasks[t].pc = "cacheDecode"
  /\ NoMicrotask
  /\ Catch(tasks, t, tasks[t], "ok", <<>>)
  /\ UNCHANGED <<loaderVars, catalogVars, readerVars, tokenVars>>
  /\ MapHandles

\* the cache hit: createImageBitmap(blob) rejects, outside any try block
CacheDecodeFailure(t) ==
  /\ tasks[t].pc = "cacheDecode"
  /\ NoMicrotask
  /\ tasks' = Put(tasks, t, [Gone(tasks[t]) EXCEPT !.pc = "rejected"])
  /\ effects' = <<>>
  /\ UNCHANGED <<loaderVars, catalogVars, readerVars, tokenVars>>
  /\ MapHandles

\* ------------------------------------------------------------- the token
\* the catch block without its return: a failed run would go on to the
\* setTimeout that ends the function
updateMspcSasTokenFallsThrough(answered) ==
  [token |-> IF answered THEN mspcSasToken + 1 ELSE mspcSasToken,
   timers |-> IF answered THEN Append(tokenTimers, TokenRefreshDelay)
              ELSE tokenTimers \o <<TokenRetryDelay, TokenRefreshDelay>>]

\* updateMspcSasToken() from the settling of its fetch to its return: the
\* token it leaves (a new value if the fetch answered and the answer was
\* parsed) and the timers armed when it returns
updateMspcSasToken(answered) ==
  [token |-> IF answered THEN mspcSasToken + 1 ELSE mspcSasToken,
   timers |-> Append(tokenTimers, IF answered THEN TokenRefreshDelay
                                  ELSE TokenRetryDelay)]

\* the callback of an armed setTimeout(updateMspcSasToken, ...): a run
\* starts and sends its fetch
StartTokenRun ==
  /\ \E j \in 1..Len(tokenTimers) :
        tokenTimers' = [n \in 1..(Len(tokenTimers) - 1) |->
                          tokenTimers[IF n < j THEN n ELSE n + 1]]
  /\ tokenRuns' = tokenRuns + 1
  /\ mspcSasToken' = mspcSasToken

\* updateMspcSasToken: the fetch answers with a new token
TokenAnswer ==
  /\ NoMicrotask
  /\ tokenRuns > 0
  /\ mspcSasToken < MaxTokens
  /\ mspcSasToken' = updateMspcSasToken(TRUE).token
  /\ tokenTimers' = updateMspcSasToken(TRUE).timers
  /\ tokenRuns' = tokenRuns - 1
  /\ readers' = Live(tasks, tiffCache, mspcSasToken', readers)
  /\ effects' = <<>>
  /\ UNCHANGED <<tasks, tileInfo, loaderVars, catalogVars, tiffCache>>

\* updateMspcSasToken: the fetch fails, the catch block schedules a retry
TokenFailure ==
  /\ NoMicrotask
  /\ tokenRuns > 0
  /\ mspcSasToken' = updateMspcSasToken(FALSE).token
  /\ tokenTimers' = updateMspcSasToken(FALSE).timers
  /\ tokenRuns' = tokenRuns - 1
  /\ effects' = <<>>
  /\ UNCHANGED <<tasks, tileInfo, loaderVars, catalogVars, readerVars>>

\* setTimeout(updateMspcSasToken, ...) fires
TokenTimer ==
  /\ NoMicrotask
  /\ mspcSasToken < MaxTokens
  /\ StartTokenRun
  /\ effects' = <<>>
  /\ UNCHANGED <<tasks, tileInfo, loaderVars, catalogVars, readerVars>>

\* ------------------------------------------------------ the specification
Next ==
  \/ \E l \in Layers, k \in Keys : OnCreateTile(l, k)
  \/ \E l \in LoaderLayers, k \in Keys : OnUnloadTile(l, k)
  \/ \E l \in LoaderLayers : OnGetImagesDates(l)
  \/ \E l \in LoaderLayers : BatchTimer(l)
  \/ \E l \in LoaderLayers : \E b \in batches[l] :
        \E f \in SearchAnswers : BatchAnswer(l, b, f)
  \/ \E l \in LoaderLayers : \E b \in batches[l] : BatchFailure(l, b)
  \/ \E t \in 1..Len(tasks) : ResumeAfterBatch(t)
  \/ \E t \in 1..Len(tasks) : \E f \in SearchAnswers : SearchAnswer(t, f)
  \/ \E t \in 1..Len(tasks) : SearchFailure(t)
  \/ \E t \in 1..Len(tasks) : CatalogReturn(t)
  \/ \E rk \in DOMAIN readers : \E run \in OpenRuns : OpenSettles(rk, run)
  \/ \E t \in 1..Len(tasks) : OpenDone(t)
  \/ \E t \in 1..Len(tasks) : \E run \in Runs : ReadSettles(t, run)
  \/ \E t \in 1..Len(tasks) : BitmapAnswer(t)
  \/ \E t \in 1..Len(tasks) : BitmapFailure(t)
  \/ \E t \in 1..Len(tasks) : BlobAnswer(t)
  \/ \E t \in 1..Len(tasks) : BlobFailure(t)
  \/ \E t \in 1..Len(tasks) : CacheDecodeAnswer(t)
  \/ \E t \in 1..Len(tasks) : CacheDecodeFailure(t)
  \/ TokenAnswer
  \/ TokenFailure
  \/ TokenTimer

Spec == Init /\ [][Next]_vars

\* ------------------------------------------------- findBestItem by itself
\* the windows findBestItem is called with: the two tiles, the merged bbox
\* of a batch holding both, and a tile no scene touches
QueryWindows == {KeyWindow("k1"), KeyWindow("k2"),
                 [top |-> 2, left |-> 0, bottom |-> 0, right |-> 2],
                 [top |-> 1, left |-> 1, bottom |-> 0, right |-> 2]}

\* #stacCache is a Map by id: n distinct scenes in insertion order
RECURSIVE CachesOfLen(_)
CachesOfLen(n) ==
  IF n = 0 THEN {<<>>}
  ELSE {Append(x[1], x[2]) :
          x \in {y \in CachesOfLen(n - 1) \X CatalogScenes :
                   \A j \in 1..Len(y[1]) : y[1][j] # y[2]}}

\* sort is given a consistent comparator on c: what compares equal to the
\* same candidate compares equal (the order is implementation-defined
\* otherwise)
ConsistentComparator(c) ==
  \A i \in 1..Len(c) : \A j \in 1..Len(c) : \A k \in 1..Len(c) :
     (Compare(c[i], c[j]) = 0 /\ Compare(c[j], c[k]) = 0)
       => Compare(c[i], c[k]) = 0

Caches ==
  {cache \in UNION {CachesOfLen(n) : n \in 0..MaxCache} :
     \A w \in QueryWindows : ConsistentComparator(Candidates(cache, w))}

\* the catalog whose findBestItem is called
SelectLayer == "Sentinel2RgbCloudless"

SelectInit ==
  /\ tasks = <<>>
  /\ visibleCellKeys = [l \in LoaderLayers |-> {}]
  /\ cellRgbCache = [l \in LoaderLayers |-> {}]
  /\ cellDates = [l \in LoaderLayers |-> NoDates]
  /\ abortControllers = [l \in LoaderLayers |-> [k \in Keys |-> 0]]
  /\ tiffCache = [l \in LoaderLayers |-> [u \in Urls |-> -1]]
  /\ \E cache \in Caches :
       stacCache = [l \in LoaderLayers |->
                      IF l = SelectLayer THEN cache ELSE <<>>]
  /\ pendingQueries = [l \in LoaderLayers |-> <<>>]
  /\ batching = [l \in LoaderLayers |-> FALSE]
  /\ batchTimers = [l \in LoaderLayers |-> 0]
  /\ batches = [l \in LoaderLayers |-> {}]
  /\ readers = [rk \in {} |-> 0]
  /\ mspcSasToken = 0
  /\ tokenRuns = 1
  /\ tokenTimers = <<>>
  /\ effects = <<>>
  /\ tileInfo = [l \in Layers |-> [k \in Keys |-> 0]]

\* this.findBestItem(topLeft, bottomRight) on the cache as it stands
FindBest(w) ==
  /\ effects' = <<[kind |-> "findBestItem", win |-> w,
                   found |-> findBestItem(stacCache[SelectLayer], w)]>>
  /\ UNCHANGED <<tasks, tileInfo, loaderVars, catalogVars, readerVars, tokenVars>>

SelectNext == \E w \in QueryWindows : FindBest(w)

SelectSpec == SelectInit /\ [][SelectNext]_vars

\* the state of the worker with nothing received, and `fx` as the record of
\* the last step
Quiet(fx) ==
  /\ tasks = <<>>
  /\ visibleCellKeys = [l \in LoaderLayers |-> {}]
  /\ cellRgbCache = [l \in LoaderLayers |-> {}]
  /\ cellDates = [l \in LoaderLayers |-> NoDates]
  /\ abortControllers = [l \in LoaderLayers |-> [k \in Keys |-> 0]]
  /\ tiffCache = [l \in LoaderLayers |-> [u \in Urls |-> -1]]
  /\ stacCache = [l \in LoaderLayers |-> <<>>]
  /\ pendingQueries = [l \in LoaderLayers |-> <<>>]
  /\ batching = [l \in LoaderLayers |-> FALSE]
  /\ batchTimers = [l \in LoaderLayers |-> 0]
  /\ batches = [l \in LoaderLayers |-> {}]
  /\ readers = [rk \in {} |-> 0]
  /\ mspcSasToken = 0
  /\ tokenRuns = 1
  /\ tokenTimers = <<>>
  /\ effects = fx
  /\ tileInfo = [l \in Layers |-> [k \in Keys |-> 0]]

\* ------------------------------------------- updateCachedItems by itself
\* data.features of a search answer: distinct scenes in any order
FeatureLists == UNION {CachesOfLen(n) : n \in 0..MaxCache}

\* the catalog as constructed: nothing cached
MergeInit == Quiet(<<>>)

\* updateCachedItems after its await, the search having answered `features`
MergeFeatures(features) ==
  /\ stacCache' = [stacCache EXCEPT ![SelectLayer] = updateCachedItems(@, features)]
  /\ effects' = <<[kind |-> "updateCachedItems", features |-> features,
                   before |-> stacCache[SelectLayer]]>>
  /\ UNCHANGED <<tasks, tileInfo, loaderVars, pendingQueries, batching, batchTimers, batches,
                 readerVars, tokenVars>>

MergeNext == \E features \in FeatureLists : MergeFeatures(features)

MergeSpec == MergeInit /\ [][MergeNext]_vars

\* ------------------------------------------- updateMspcSasToken by itself
\* what the token endpoint will do at the first, second, ... fetch: answer
\* with a token, or fail
EndpointBehaviours == [1..MaxFetches -> {"token", "fail"}]

TokenInit ==
  \E answers \in EndpointBehaviours :
     Quiet(<<[kind |-> "endpoint", answers |-> answers]>>)

\* the fetch of the run in flight settles as the endpoint behaves
RefreshSettles ==
  /\ tokenRuns > 0
  /\ effects[1].answers # <<>>
  /\ LET r == updateMspcSasToken(Head(effects[1].answers) = "token")
     IN /\ mspcSasToken' = r.token
        /\ tokenTimers' = r.timers
  /\ tokenRuns' = tokenRuns - 1
  /\ effects' = <<[effects[1] EXCEPT !.answers = Tail(@)]>>
  /\ UNCHANGED <<tasks, tileInfo, loaderVars, catalogVars, readerVars>>

\* an armed timer fires
RefreshTimer ==
  /\ effects[1].answers # <<>>
  /\ StartTokenRun
  /\ UNCHANGED <<tasks, tileInfo, loaderVars, catalogVars, readerVars, effects>>

TokenNext == RefreshSettles \/ RefreshTimer

TokenSpec == TokenInit /\ [][TokenNext]_vars

\* ---------------------------------------------------- withRetry by itself
\* what one call of the wrapped function can do: return, throw an
\* AbortError, or throw one of two other errors
CallOutcomes == {"ok", "abort", "fail", "TypeError"}

\* what the wrapped function would do at its first, second, ... call, one
\* call further than the wrapper can go
Behaviours == [1..(Retries + 1) -> CallOutcomes]

\* a wrapper is made for a function that will behave as `outcomes`
RetryInit ==
  \E outcomes \in Behaviours :
     Quiet(<<[kind |-> "wrapped", outcomes |-> outcomes]>>)

\* withRetry(fn)(...args) runs to its end
CallWrapped ==
  /\ effects[1].kind = "wrapped"
  /\ effects' = <<[kind |-> "withRetry", outcomes |-> effects[1].outcomes,
                   r |-> withRetry(effects[1].outcomes, 0, Delay, <<>>)]>>
  /\ UNCHANGED <<tasks, tileInfo, loaderVars, catalogVars, readerVars, tokenVars>>

RetryNext == CallWrapped

RetrySpec == RetryInit /\ [][RetryNext]_vars

\* ------------------------------------------------ warpCellImage by itself
\* Math.round of num / den, den > 0
Round(num, den) == (2 * num + den) \div (2 * den)

\* Math.min(Math.max(v, 0), hi)
Clamp(v, hi) == Min(Max(v, 0), hi)

\* the pixels <<x, y>> of warpedImage and of origCellImage
DstPixels == (0..(DstSize - 1)) \X (0..(DstSize - 1))
SrcPixels == (0..(SrcSize - 1)) \X (0..(SrcSize - 1))

\* originPixelCoords: the corners A, B, C, D of the cell (top left, top
\* right, bottom right, bottom left) in pixels of the raster read for their
\* bounding box, here on whole pixels
Corners == (0..SrcSize) \X (0..SrcSize)

Quads ==
  {q \in [A : Corners, B : Corners, C : Corners, D : Corners] :
     /\ q.A[1] < q.B[1] /\ q.D[1] < q.C[1]
     /\ q.A[2] < q.D[2] /\ q.B[2] < q.C[2]
     /\ \E c \in {q.A, q.B, q.C, q.D} : c[1] = 0
     /\ \E c \in {q.A, q.B, q.C, q.D} : c[1] = SrcSize
     /\ \E c \in {q.A, q.B, q.C, q.D} : c[2] = 0
     /\ \E c \in {q.A, q.B, q.C, q.D} : c[2] = SrcSize}

\* the cell is the rectangle of its bounding box
RectQuad == [A |-> <<0, 0>>, B |-> <<SrcSize, 0>>,
             C |-> <<SrcSize, SrcSize>>, D |-> <<0, SrcSize>>]

\* the source pixel if x0 and y0 were truncated, not rounded
SourcePixelTruncated(q, p) ==
  LET wh == DstSize * DstSize
      x0 == (q.A[1] * wh + p[1] * DstSize * (q.B[1] - q.A[1])
               + p[2] * DstSize * (q.D[1] - q.A[1])
               + p[1] * p[2] * ((q.C[1] - q.B[1]) - (q.D[1] - q.A[1]))) \div wh
      y0 == (q.A[2] * wh + p[1] * DstSize * (q.B[2] - q.A[2])
               + p[2] * DstSize * (q.D[2] - q.A[2])
               + p[1] * p[2] * ((q.C[1] - q.B[1]) - (q.D[1] - q.A[1]))) \div wh
  IN <<Clamp(x0, SrcSize - 1), Clamp(y0, SrcSize - 1)>>

\* the source pixel <<x0, y0>> sampled for the pixel p = <<x, y>> of the
\* cell: x1 = x / cellSize.x, y1 = y / cellSize.y,
\* x0 = A[0] + x1*AB[0] + y1*AD[0] + x1*y1*BCsubAD[0],
\* y0 = A[1] + x1*AB[1] + y1*AD[1] + x1*y1*BCsubAD[0], rounded and clamped
SourcePixel(q, p) ==
  LET wh == DstSize * DstSize
      AB == <<q.B[1] - q.A[1], q.B[2] - q.A[2]>>
      AD == <<q.D[1] - q.A[1], q.D[2] - q.A[2]>>
      BC == <<q.C[1] - q.B[1], q.C[2] - q.B[2]>>
      BCsubAD == <<BC[1] - AD[1], BC[2] - AD[2]>>
      x0 == Round(q.A[1] * wh + p[1] * DstSize * AB[1] + p[2] * DstSize * AD[1]
                    + p[1] * p[2] * BCsubAD[1], wh)
      y0 == Round(q.A[2] * wh + p[1] * DstSize * AB[2] + p[2] * DstSize * AD[2]
                    + p[1] * p[2] * BCsubAD[1], wh)
  IN <<Clamp(x0, SrcSize - 1), Clamp(y0, SrcSize - 1)>>

\* warpCellImage without the test of the destination's alpha
warpCellImageOverwrites(origCellImage, warpedImage, q) ==
  [p \in DstPixels |->
     LET c == origCellImage[SourcePixel(q, p)]
     IN IF c[1] > 0 \/ c[2] > 0 \/ c[3] > 0
        THEN <<c[1], c[2], c[3], 255>>
        ELSE warpedImage[p]]

\* warpCellImage if it took a zero first band for no data
warpCellImageFirstBand(origCellImage, warpedImage, q) ==
  [p \in DstPixels |->
     IF warpedImage[p][4] # 255
     THEN LET c == origCellImage[SourcePixel(q, p)]
          IN IF c[1] > 0
             THEN <<c[1], c[2], c[3], 255>>
             ELSE warpedImage[p]
     ELSE warpedImage[p]]

\* warpCellImage(origCellImage, warpedImage, cellCoordsUtm, cellBboxUtm,
\* cellSize): warpedImage.data afterwards, a pixel being <<r, g, b, a>>
warpCellImage(origCellImage, warpedImage, q) ==
  [p \in DstPixels |->
     IF warpedImage[p][4] # 255
     THEN LET c == origCellImage[SourcePixel(q, p)]
          IN IF c[1] > 0 \/ c[2] > 0 \/ c[3] > 0
             THEN <<c[1], c[2], c[3], 255>>
             ELSE warpedImage[p]
     ELSE warpedImage[p]]

\* what a pixel read from a scene can hold: no data, or data with some
\* band at zero
Samples == {<<0, 0, 0>>, <<0, 0, 7>>, <<5, 6, 0>>}

\* the rasters read: one sample everywhere, or with a column or a row of
\* no data
Rasters ==
  {[p \in SrcPixels |-> IF p[1] \in gx \/ p[2] \in gy THEN <<0, 0, 0>> ELSE c] :
     c \in Samples, gx \in {{}, {0}}, gy \in {{}, {0}}}

\* new ImageData(pkg.tileSize.x, pkg.tileSize.y)
BlankImage == [p \in DstPixels |-> <<0, 0, 0, 0>>]

\* createTile has made the ImageData of a cell with corners q
WarpInit ==
  \E q \in Quads :
     Quiet(<<[kind |-> "ImageData", quad |-> q, after |-> BlankImage,
              reads |-> <<>>]>>)

\* getCellRgbImage for the next scene: the raster read is warped into the
\* ImageData; reads lists what each scene so far held at the source pixel
\* of every pixel of the cell
WarpCell(origCellImage) ==
  /\ effects[1].kind \in {"ImageData", "warpCellImage"}
  /\ Len(effects[1].reads) < MaxScenes
  /\ LET q == effects[1].quad
         warpedImage == effects[1].after
     IN effects' =
          <<[kind |-> "warpCellImage", quad |-> q,
             raster |-> origCellImage,
             sampled |-> [p \in DstPixels |-> SourcePixel(q, p)],
             before |-> warpedImage,
             after |-> warpCellImage(origCellImage, warpedImage, q),
             reads |-> Append(effects[1].reads,
                        [p \in DstPixels |-> origCellImage[SourcePixel(q, p)]])]>>
  /\ UNCHANGED <<tasks, tileInfo, loaderVars, catalogVars, readerVars, tokenVars>>

WarpNext == \E origCellImage \in Rasters : WarpCell(origCellImage)

WarpSpec == WarpInit /\ [][WarpNext]_vars

\* ------------------------------------------------- calculateNdvi by itself
\* colormap of ndviToRGB: [ndvi, R, G, B], ndvi in thousandths
colormap ==
  << <<0, 234, 234, 234>>, <<25, 255, 249, 204>>, <<50, 237, 232, 181>>,
     <<75, 221, 216, 155>>, <<100, 204, 198, 130>>, <<125, 188, 183, 107>>,
     <<150, 175, 193, 96>>, <<175, 163, 204, 89>>, <<200, 145, 191, 81>>,
     <<250, 127, 178, 71>>, <<300, 112, 163, 63>>, <<350, 96, 150, 53>>,
     <<400, 79, 137, 45>>, <<450, 63, 124, 35>>, <<500, 48, 109, 28>>,
     <<550, 33, 96, 17>>, <<600, 15, 84, 10>>, <<1000, 0, 68, 0>> >>

\* ndviToRGB(ndvi) for ndvi = num / den, den > 0: the first pair of
\* adjacent stops around ndvi (the first and the last stop if there is
\* none), then each channel interpolated and rounded
ndviToRGB(num, den) ==
  LET around == {i \in 1..(Len(colormap) - 1) :
                   /\ 1000 * num >= colormap[i][1] * den
                   /\ 1000 * num <= colormap[i + 1][1] * den}
      found == around # {}
      i == IF found THEN CHOOSE j \in around : \A k \in around : j <= k ELSE 0
      lower == IF found THEN colormap[i] ELSE colormap[1]
      upper == IF found THEN colormap[i + 1] ELSE colormap[Len(colormap)]
      tnum == 1000 * num - lower[1] * den
      tden == (upper[1] - lower[1]) * den
  IN [c \in 1..3 |->
        Round(lower[c + 1] * tden + tnum * (upper[c + 1] - lower[c + 1]), tden)]

\* calculateNdvi without Math.max(0, Math.min(ndvi, 1))
calculateNdviUnclamped(red, nir) ==
  IF red = 0 /\ nir = 0 THEN <<0, 0, 0>>
  ELSE ndviToRGB(nir - red, nir + red)

\* calculateNdvi(redRaster, nirRaster) at one pixel: the three bands of
\* rgbRaster there
calculateNdvi(red, nir) ==
  IF red = 0 /\ nir = 0 THEN <<0, 0, 0>>
  ELSE ndviToRGB(Max(0, Min(nir - red, nir + red)), nir + red)

\* the two bands have been read, holding red and nir at every pixel
NdviInit ==
  \E red \in 0..MaxBand : \E nir \in 0..MaxBand :
     Quiet(<<[kind |-> "readRasters", red |-> red, nir |-> nir]>>)

\* getCellRgbImage of the NDVI loader after its reads: calculateNdvi, then
\* warpCellImage into a new ImageData
ColorizeCell ==
  /\ effects[1].kind = "readRasters"
  /\ LET rgb == calculateNdvi(effects[1].red, effects[1].nir)
     IN effects' =
          <<[kind |-> "calculateNdvi", red |-> effects[1].red,
             nir |-> effects[1].nir, rgb |-> rgb,
             after |-> warpCellImage([p \in SrcPixels |-> rgb], BlankImage,
                                     RectQuad)]>>
  /\ UNCHANGED <<tasks, tileInfo, loaderVars, catalogVars, readerVars, tokenVars>>

NdviNext == ColorizeCell

NdviSpec == NdviInit /\ [][NdviNext]_vars

\* ------------------------------------------------------------- the claims
\* a call waiting on a batched search that is neither queued nor part of a
\* batch in flight: no step of the program can resume it
Stranded(t) ==
  /\ tasks[t].pc = "waitBatch"
  /\ \A j \in 1..Len(pendingQueries[tasks[t].layer]) :
        pendingQueries[tasks[t].layer][j] # t
  /\ \A b \in batches[tasks[t].layer] : ~InBatch(b, t)

\* C1: a createTile whose key was unloaded while it was pending (its
\* controller's signal is aborted) posts no 'done' message, neither a success
\* nor an error one.
C1_NoDoneAfterUnload ==
  \A j \in 1..Len(effects) :
     effects[j].kind = "done" => ~effects[j].call.aborted

\* C2: a createTile whose key was unloaded while it was pending never writes
\* the render cache.
C2_NoCacheWriteAfterUnload ==
  \A j \in 1..Len(effects) :
     effects[j].kind = "cacheSet" => ~effects[j].call.aborted

\* C3: when the catalog returns to a createTile that was cancelled during
\* the catalog wait, the call records no dates for the key, opens no reader
\* and issues no pixel read.
C3_NoEffectAfterCatalogAbort ==
  \A j \in 1..Len(effects) :
     (/\ effects[j].kind \in {"datesSet", "fromUrl", "readRasters"}
      /\ effects[j].call.pc = "catalogReturn")
       => ~effects[j].call.aborted

\* C4: a createTile that is not cancelled is never left pending forever: it
\* is never waiting on a catalog search that nothing will answer.
C4_NeverStranded ==
  \A t \in 1..Len(tasks) : ~tasks[t].aborted => ~Stranded(t)

\* C5: one createTile call posts at most one 'done' message; a success
\* 'done' is never followed by an error 'done' of the same call.
C5_AtMostOneDone ==
  \A j \in 1..Len(effects) :
     effects[j].kind = "done" => Len(effects[j].call.done) <= 1

\* C6: a createTile message of any layer type the map side sends is
\* dispatched to a loader of the worker (which then answers it).
C6_EveryLayerDispatched ==
  \A t \in 1..Len(tasks) : tasks[t].pc # "noLoader"

\* C7: when fetchLatestS2 ends with a coverage ratio at or below 0.01, the
\* 'done' message of the (uncancelled) createTile carries no error.
C7_NoScenesIsNoError ==
  \A j \in 1..Len(effects) :
     (/\ effects[j].kind = "done"
      /\ effects[j].call.pc = "catalogReturn"
      /\ effects[j].call.catalog = "null"
      /\ ~effects[j].call.aborted)
       => effects[j].error = "ok"

\* C8: one failed catalog search does not by itself fail the tile: a 'done'
\* carrying the search error is posted only after a second failed search.
C8_SearchFailureRetried ==
  \A j \in 1..Len(effects) :
     (effects[j].kind = "done" /\ effects[j].error = "StacError")
       => effects[j].call.stacFails >= 2

\* C9: a fetchLatestS2 that finds the window covered up to the threshold by
\* the scenes already cached takes part in no search, batched or unbatched,
\* and returns complete = true.
C9_CachedCoverageNoSearch ==
  \A t \in 1..Len(tasks) :
     (tasks[t].pc = "catalogReturn" /\ tasks[t].startFull)
       => /\ tasks[t].searches = <<>>
          /\ tasks[t].catalog = "complete"
          /\ tasks[t].fullCoverage

C9_Witness ==
  \E t \in 1..Len(tasks) :
     /\ tasks[t].pc = "catalogReturn"
     /\ tasks[t].startFull
     /\ stacCache[tasks[t].layer] # <<>>

\* the searches a fetchLatestS2 has taken part in, by where it stands
SearchesInOrder(t) ==
  /\ tasks[t].searches \in {<<>>, <<"batched">>, <<"batched", "unbatched">>}
  /\ tasks[t].pc = "waitBatch" => tasks[t].searches = <<"batched">>
  /\ tasks[t].pc = "waitSearch" => tasks[t].searches = <<"batched", "unbatched">>
  /\ (tasks[t].pc = "catalogReturn" /\ tasks[t].catalog # "complete")
       => tasks[t].searches = <<"batched", "unbatched">>

\* the step that starts the unbatched search of call t
StartsUnbatched(t) ==
  tasks[t].pc = "batchResolved" /\ tasks'[t].pc = "waitSearch"

\* C10: one fetchLatestS2 takes part in at most two searches, the first
\* batched, the second unbatched; the unbatched one is started only while
\* the coverage is below the threshold and leaves the pending list and the
\* batching flag alone; after it the best result, complete or not, is
\* returned.
C10_SearchesOfOneFetch ==
  /\ [](\A t \in 1..Len(tasks) : SearchesInOrder(t))
  /\ [][\A t \in 1..Len(tasks) :
          StartsUnbatched(t)
            => /\ BelowCoverageThr(findBestItem(stacCache[tasks[t].layer],
                                                tasks[t].win).ratio)
               /\ UNCHANGED <<pendingQueries, batching, batches>>]_vars

C10_Witness ==
  \E t \in 1..Len(tasks) :
     /\ tasks[t].pc = "catalogReturn"
     /\ tasks[t].searches = <<"batched", "unbatched">>
     /\ tasks[t].catalog = "partial"

\* the smallest window that contains every window of the set ws
UnionWindow(ws) ==
  [top |-> CHOOSE x \in {w.top : w \in ws} : \A w \in ws : w.top <= x,
   left |-> CHOOSE x \in {w.left : w \in ws} : \A w \in ws : w.left >= x,
   bottom |-> CHOOSE x \in {w.bottom : w \in ws} : \A w \in ws : w.bottom >= x,
   right |-> CHOOSE x \in {w.right : w \in ws} : \A w \in ws : w.right <= x]

\* the windows the callers of a batch passed to fetchLatestS2
PassedWindows(callers) ==
  {KeyWindow(tasks[callers[j]].key) : j \in 1..Len(callers)}

\* a firing of the batching timer of layer l sends exactly one search, for
\* the whole pending list and the union of its windows
OneSearchForTheList(l) ==
  /\ pendingQueries'[l] = <<>>
  /\ \E b \in batches'[l] :
        /\ b \notin batches[l]
        /\ batches'[l] = batches[l] \cup {b}
        /\ b.callers = pendingQueries[l]
        /\ b.bbox = UnionWindow(PassedWindows(pendingQueries[l]))

\* C11: the batched fetches enqueued between the arming of the batching
\* timer and its firing are all in the pending list when it fires, and the
\* firing serves them by exactly one search request whose bbox is the union
\* of their windows; no other step sends a batch search.
C11_OneSearchPerBatch ==
  /\ [](\A l \in LoaderLayers :
          /\ pendingQueries[l] # <<>> <=> batching[l]
          /\ \A j \in 1..Len(pendingQueries[l]) :
                tasks[pendingQueries[l][j]].pc = "waitBatch")
  /\ [][\A l \in LoaderLayers :
          /\ (batching[l] /\ ~batching'[l]) => OneSearchForTheList(l)
          /\ batches'[l] \subseteq batches[l] \/ (batching[l] /\ ~batching'[l])]_vars

C11_Witness ==
  \E l \in LoaderLayers : \E b \in batches[l] :
     /\ Len(b.callers) = 2
     /\ tasks[b.callers[1]].key # tasks[b.callers[2]].key
     /\ b.bbox = [top |-> 2, left |-> 0, bottom |-> 0, right |-> 2]

\* the resolutions of the last step
Resolutions == {j \in 1..Len(effects) : effects[j].kind = "resolved"}

\* C12: the callers coalesced into one batch are all resolved, each once, in
\* the step in which that batch's search answers, all with the feature list
\* of that answer; the step resolves no caller of another batch.
C12_SameResultForTheBatch ==
  \A j \in Resolutions :
     LET b == effects[j].batch
     IN /\ \A i \in Resolutions :
              /\ effects[i].batch = b
              /\ effects[i].features = effects[j].features
              /\ effects[i].by = effects[j].by => i = j
        /\ {effects[i].by : i \in Resolutions}
              = {b.callers[i] : i \in 1..Len(b.callers)}
        /\ \A t \in 1..Len(tasks) :
              tasks[t].pc = "batchResolved" <=> InBatch(b, t)
        /\ \A i \in 1..Len(effects[j].features) :
              \E c \in 1..Len(stacCache[effects[j].call.layer]) :
                 stacCache[effects[j].call.layer][c] = effects[j].features[i]

C12_Witness ==
  \E j \in Resolutions :
     /\ Len(effects[j].batch.callers) = 2
     /\ effects[j].features = <<"sA", "sB">>
     /\ tasks[effects[j].batch.callers[1]].key # tasks[effects[j].batch.callers[2]].key

\* the step in which call t calls openGeoTiffFile
CallsOpen(t) ==
  /\ tasks'[t].pc = "waitOpen"
  /\ \/ tasks[t].pc # "waitOpen"
     \/ tasks[t].band # tasks'[t].band
     \/ tasks[t].idx # tasks'[t].idx

\* the url call t passes to openGeoTiffFile in that step
OpenedUrl(t) ==
  UrlOf(tasks'[t].layer, tasks'[t].stacItems[tasks'[t].idx], tasks'[t].band)

\* C13: openGeoTiffFile for a url that #tiffCache holds under the current
\* token returns the cached reader promise (the caller awaits the very
\* promise that was there) and starts no open: no fromUrl, the cache and
\* the promise are left as they were.
C13_SameReaderSameToken ==
  [][\A t \in 1..Len(tasks) :
       (CallsOpen(t) /\ tiffCache[tasks[t].layer][OpenedUrl(t)] = mspcSasToken)
         => LET rk == <<tasks[t].layer, OpenedUrl(t), mspcSasToken>>
            IN /\ ReaderKey(tasks'[t]) = rk
               /\ rk \in DOMAIN readers
               /\ readers'[rk] = readers[rk]
               /\ tiffCache' = tiffCache
               /\ \A j \in 1..Len(effects') : effects'[j].kind # "fromUrl"]_vars

C13_Witness ==
  \E t \in 1..Len(tasks) : \E o \in 1..Len(tasks) :
     /\ t # o
     /\ tasks[t].pc = "waitOpen" /\ tasks[o].pc = "waitOpen"
     /\ ReaderKey(tasks[t]) = ReaderKey(tasks[o])
     /\ readers[ReaderKey(tasks[t])] = "opening"

\* C14: a lookup that finds no entry under the current token replaces the
\* entry of that url alone by a reader being opened with the current
\* token, tagged with it; #tiffCache changes at such a lookup only; a step
\* that changes the token leaves #tiffCache and every call as they are,
\* and the promises that calls await stay what they were.
C14_StaleEntryReplacedAtLookup ==
  [][/\ \A t \in 1..Len(tasks) :
          (CallsOpen(t) /\ tiffCache[tasks[t].layer][OpenedUrl(t)] # mspcSasToken)
            => LET l == tasks[t].layer
                   rk == <<l, OpenedUrl(t), mspcSasToken>>
               IN /\ tiffCache' = [tiffCache EXCEPT ![l][OpenedUrl(t)] = mspcSasToken]
                  /\ ReaderKey(tasks'[t]) = rk
                  /\ rk \in DOMAIN readers'
                  /\ readers'[rk] = "opening"
                  /\ \E j \in 1..Len(effects') :
                        effects'[j].kind = "fromUrl" /\ effects'[j].by = t
     /\ tiffCache' # tiffCache
          => /\ mspcSasToken' = mspcSasToken
             /\ \E t \in 1..Len(tasks) : CallsOpen(t)
     /\ mspcSasToken' # mspcSasToken
          => /\ tiffCache' = tiffCache
             /\ tasks' = tasks
             /\ effects' = <<>>
             /\ \A t \in 1..Len(tasks) :
                   tasks[t].pc = "waitOpen"
                     => /\ ReaderKey(tasks[t]) \in DOMAIN readers'
                        /\ readers'[ReaderKey(tasks[t])] = readers[ReaderKey(tasks[t])]]_vars

\* a call still awaits the reader of the old token while the entry of the
\* same url has been replaced by a reader of the current token
C14_Witness ==
  \E t \in 1..Len(tasks) :
     /\ tasks[t].pc = "waitOpen"
     /\ tasks[t].tok # mspcSasToken
     /\ ReaderKey(tasks[t]) \in DOMAIN readers
     /\ LET rk == ReaderKey(tasks[t])
        IN /\ tiffCache[rk[1]][rk[2]] = mspcSasToken
           /\ <<rk[1], rk[2], mspcSasToken>> \in DOMAIN readers

\* C15: #cellRgbCache gains a key only in the step of a createTile call for
\* that key to which the catalog reported full coverage and which posted
\* its 'done' message without an error; a call that posts 'done' with an
\* error or with partial coverage ends there and stores nothing.
C15_OnlyCompleteRendersCached ==
  /\ [](\A t \in 1..Len(tasks) :
          tasks[t].pc = "waitBlob"
            => tasks[t].fullCoverage /\ tasks[t].done = <<"ok">>)
  /\ [][/\ \A l \in LoaderLayers :
             cellRgbCache'[l] # cellRgbCache[l]
               => \E j \in 1..Len(effects') :
                     /\ effects'[j].kind = "cacheSet"
                     /\ effects'[j].call.layer = l
                     /\ effects'[j].call.fullCoverage
                     /\ effects'[j].call.done = <<"ok">>
                     /\ cellRgbCache'[l] = cellRgbCache[l] \cup {effects'[j].call.key}
        /\ \A j \in 1..Len(effects') :
             (/\ effects'[j].kind = "done"
              /\ effects'[j].error # "ok" \/ ~effects'[j].call.fullCoverage)
               => /\ tasks'[effects'[j].by].pc = "finished"
                  /\ cellRgbCache' = cellRgbCache]_vars

C15_Witness ==
  \E j \in 1..Len(effects) :
     /\ effects[j].kind = "cacheSet"
     /\ effects[j].call.fullCoverage
     /\ effects[j].call.key \in cellRgbCache[effects[j].call.layer]

\* what a createTile on a cached key must leave alone
NetworkVars == <<abortControllers, cellDates, cellRgbCache, stacCache,
                 pendingQueries, batching, batches, tiffCache, readers>>

\* C16: a createTile for a key of #cellRgbCache goes straight to the
\* decoding of the stored blob: it joins no catalog query, opens no reader,
\* reads no pixels and registers no AbortController, neither in the step
\* that receives it nor in the one that ends it, and the only message it
\* posts is one 'done' without error (it posts nothing if the decoding of
\* the blob rejects).
C16_CacheHitTouchesNothing ==
  /\ [](\A t \in 1..Len(tasks) :
          tasks[t].pc = "cacheDecode"
            => /\ tasks[t].key \in cellRgbCache[tasks[t].layer]
               /\ abortControllers[tasks[t].layer][tasks[t].key] # t
               /\ tasks[t].searches = <<>> /\ tasks[t].stacItems = <<>>
               /\ tasks[t].tok = -1 /\ tasks[t].done = <<>>
               /\ \A j \in 1..Len(pendingQueries[tasks[t].layer]) :
                     pendingQueries[tasks[t].layer][j] # t
               /\ \A b \in batches[tasks[t].layer] : ~InBatch(b, t))
  /\ [][/\ (/\ Len(tasks') > Len(tasks)
             /\ tasks'[Len(tasks')].layer \in LoaderLayers
             /\ tasks'[Len(tasks')].key
                  \in cellRgbCache[tasks'[Len(tasks')].layer])
              => /\ tasks'[Len(tasks')].pc = "cacheDecode"
                 /\ effects' = <<>>
                 /\ UNCHANGED NetworkVars
        /\ \A t \in 1..Len(tasks) :
             (tasks[t].pc = "cacheDecode" /\ tasks'[t] # tasks[t])
               => /\ UNCHANGED NetworkVars
                  /\ \/ /\ tasks'[t].pc = "finished"
                        /\ effects' = <<Post(t, tasks[t], "ok")>>
                     \/ /\ tasks'[t].pc = "rejected"
                        /\ effects' = <<>>]_vars

C16_Witness ==
  \E j \in 1..Len(effects) :
     /\ effects[j].kind = "done" /\ effects[j].error = "ok"
     /\ effects[j].call.pc = "cacheDecode"
     /\ effects[j].call.key \in cellRgbCache[effects[j].call.layer]

\* the calls of findBestItem the last step made
Found == {effects[j] : j \in {i \in 1..Len(effects) :
                                effects[i].kind = "findBestItem"}}

\* a <= b for two ratios against the same window
RatioLeq(a, b) == a.den = b.den /\ a.num <= b.num

\* the running ratio after iteration st
RatioAfter(st) == IF st.accepted THEN st.new ELSE st.cur

\* C17: over the iterations of the loop of findBestItem the running ratio
\* never decreases (it starts as the seed's ratio, changes only when a
\* candidate is pushed, and then to a higher value); every iteration starts
\* below bboxCoverageThr, the loop leaves candidates unexamined only when
\* the ratio has reached it, and the returned list is the seed followed by
\* the pushed candidates.
C17_RatioGrowsThenStops ==
  \A e \in Found :
     ~e.found.isNull =>
       LET f == e.found
           st == f.steps
           n == Len(st)
       IN /\ \A j \in 1..n :
                /\ BelowCoverageThr(st[j].cur)
                /\ RatioLeq(st[j].cur, RatioAfter(st[j]))
                /\ st[j].item = f.sorted[j + 1].item
                /\ st[j].cur = IF j = 1 THEN f.sorted[1].ratio
                               ELSE RatioAfter(st[j - 1])
          /\ f.ratio = IF n = 0 THEN f.sorted[1].ratio ELSE RatioAfter(st[n])
          /\ n < Len(f.sorted) - 1 => ~BelowCoverageThr(f.ratio)
          /\ Len(f.items) = 1 + Cardinality({j \in 1..n : st[j].accepted})
          /\ f.items[1] = f.sorted[1].item
          /\ \A j \in 1..n :
                st[j].accepted <=> \E i \in 2..Len(f.items) : f.items[i] = st[j].item

\* a second scene brought the ratio to the threshold and a third candidate
\* was left unexamined
C17_Witness ==
  \E e \in Found :
     /\ Len(e.found.items) = 2
     /\ Len(e.found.sorted) = 3
     /\ Len(e.found.steps) = 1
     /\ ~BelowCoverageThr(e.found.ratio)

\* C18: every candidate pushed by the loop of findBestItem enlarges the
\* area the selected scenes cover inside the window by more than 0.001 of
\* the window's area.
C18_AcceptedAddsCoverage ==
  \A e \in Found :
     \A j \in 1..Len(e.found.steps) :
        LET st == e.found.steps[j]
        IN st.accepted
             => (AreaOf(st.covered \cup st.poly) - AreaOf(st.covered)) * 1000
                  > WindowArea(e.win)

\* C19: the first of the sorted candidates, the seed, is a most recent one
\* among the scenes of the cache that intersect the window, and of two
\* candidates of one timestamp the one with the higher ratio comes first.
C19_SortedByTimeThenRatio ==
  \A e \in Found :
     LET c == e.found.sorted
     IN /\ \A j \in 1..Len(c) : DateTime(c[1].item) >= DateTime(c[j].item)
        /\ \A i \in 1..Len(c) : \A j \in 1..Len(c) :
              (/\ DateTime(c[i].item) = DateTime(c[j].item)
               /\ c[i].ratio.num > c[j].ratio.num)
                => i < j

\* the part of window w the scenes of the list cover
CoveredBy(items, w) ==
  UNION {Footprint(items[j]) \cap RegionsIn(w) : j \in 1..Len(items)}

\* C20: fetchLatestS2 returns fullCoverage = true exactly when the scenes
\* it returns cover at least bboxCoverageThr of the window.
C20_CompleteIffCovered ==
  \A t \in 1..Len(tasks) :
     (tasks[t].pc = "catalogReturn" /\ ~tasks[t].isNull)
       => (tasks[t].fullCoverage
             <=> ~BelowCoverageThr(
                    ExactRatio(AreaOf(CoveredBy(tasks[t].stacItems, tasks[t].win)),
                               WindowArea(tasks[t].win))))

\* the runs of withRetry the last step made
Retried == {effects[j] : j \in {i \in 1..Len(effects) :
                                  effects[i].kind = "withRetry"}}

\* the outcome is an error other than AbortError
Fails(o) == o \notin {"ok", "abort"}

\* C21: the wrapper calls the function at most 3 times; it has waited 500
\* after the first failure and 1000 after the second and nothing after the
\* third, which it rethrows; a success at an attempt is the wrapper's
\* result, after the failures before it and their waits alone.
C21_ThreeAttemptsDoublingWaits ==
  \A e \in Retried :
     LET r == e.r
         o == e.outcomes
         n == r.attempts
     IN /\ n \in 1..3
        /\ \A j \in 1..(n - 1) : Fails(o[j])
        /\ Len(r.waits) <= 2
        /\ \A j \in 1..Len(r.waits) : r.waits[j] = IF j = 1 THEN 500 ELSE 1000
        /\ r.result = "ok" <=> o[n] = "ok"
        /\ r.result = "ok" => Len(r.waits) = n - 1 /\ r.last = "null"
        /\ r.result = "error"
             <=> (Fails(o[1]) /\ Fails(o[2]) /\ Fails(o[3]))
        /\ r.result = "error"
             => n = 3 /\ r.waits = <<500, 1000>> /\ r.last = o[3]

\* three failures, the last rethrown, where a fourth call would have
\* succeeded
C21_Witness ==
  \E e \in Retried :
     /\ e.r.result = "error" /\ e.r.last = "TypeError"
     /\ e.outcomes[1] = "fail" /\ e.outcomes[4] = "ok"
     /\ e.r.waits = <<500, 1000>>

\* C22: an AbortError of the function ends the wrapper at that attempt,
\* whichever it is: the wrapper throws it, has waited only after the
\* failures before it, and calls the function no more.
C22_AbortNeverRetried ==
  \A e \in Retried :
     LET r == e.r
         o == e.outcomes
         n == r.attempts
     IN /\ r.result = "AbortError" <=> o[n] = "abort"
        /\ \A j \in 1..(n - 1) : o[j] # "abort"
        /\ (\E j \in 1..3 : o[j] = "abort" /\ \A i \in 1..(j - 1) : Fails(o[i]))
             => /\ r.result = "AbortError" /\ r.last = "abort"
                /\ o[n] = "abort"
                /\ Len(r.waits) = n - 1

\* the AbortError comes at the second attempt, after one wait, and the
\* third call would have succeeded
C22_Witness ==
  \E e \in Retried :
     /\ e.r.result = "AbortError" /\ e.r.attempts = 2
     /\ e.r.waits = <<500>>
     /\ e.outcomes[3] = "ok"

\* the calls of warpCellImage the last step made
Warped == {effects[j] : j \in {i \in 1..Len(effects) :
                                 effects[i].kind = "warpCellImage"}}

\* the sample holds data: some band is not zero
HasData(c) == c # <<0, 0, 0>>

\* the scenes, in the order warped, that held data for pixel p
ScenesWithData(reads, p) == {j \in 1..Len(reads) : HasData(reads[j][p])}

\* C23: a call of warpCellImage leaves every pixel whose alpha is 255 as it
\* was, and after the calls for the scenes of a tile each pixel holds, with
\* alpha 255, the sample of the first scene that held data for it, or is
\* still blank if none did.
C23_OpaquePixelsKept ==
  \A e \in Warped :
     \A p \in DstPixels :
        /\ e.before[p][4] = 255 => e.after[p] = e.before[p]
        /\ e.after[p][4] \in {0, 255}
        /\ LET with == ScenesWithData(e.reads, p)
           IN IF with = {}
              THEN e.after[p] = <<0, 0, 0, 0>>
              ELSE LET first == CHOOSE j \in with : \A i \in with : j <= i
                       c == e.reads[first][p]
                   IN e.after[p] = <<c[1], c[2], c[3], 255>>

\* the second scene held other data for a pixel the first had painted
C23_Witness ==
  \E e \in Warped : \E p \in DstPixels :
     /\ Len(e.reads) = 2
     /\ HasData(e.reads[1][p]) /\ HasData(e.reads[2][p])
     /\ e.reads[1][p] # e.reads[2][p]
     /\ e.before[p][4] = 255
     /\ e.after[p] = e.before[p]

\* C24: for a pixel not yet opaque, warpCellImage changes nothing if the
\* three bands of the sampled source pixel are zero, and otherwise writes
\* the three band values and alpha 255.
C24_NoDataLeavesPixel ==
  \A e \in Warped :
     \A p \in DstPixels :
        e.before[p][4] # 255
          => LET c == e.raster[e.sampled[p]]
             IN IF c[1] = 0 /\ c[2] = 0 /\ c[3] = 0
                THEN e.after[p] = e.before[p]
                ELSE e.after[p] = <<c[1], c[2], c[3], 255>>

\* the first scene had no data for a pixel and the second, whose first
\* band is zero there, filled it
C24_Witness ==
  \E e \in Warped : \E p \in DstPixels :
     /\ Len(e.reads) = 2
     /\ ~HasData(e.reads[1][p])
     /\ e.before[p] = <<0, 0, 0, 0>>
     /\ e.reads[2][p] = <<0, 0, 7>>
     /\ e.after[p] = <<0, 0, 7, 255>>

\* P = A + u(B-A) + v(D-A) + uv((C-B)-(D-A)) in coordinate k (1 = x,
\* 2 = y) for pixel p, rounded and clamped
Bilinear(q, p, k) ==
  Clamp(Round(q.A[k] * DstSize * DstSize
                + p[1] * DstSize * (q.B[k] - q.A[k])
                + p[2] * DstSize * (q.D[k] - q.A[k])
                + p[1] * p[2] * ((q.C[k] - q.B[k]) - (q.D[k] - q.A[k])),
              DstSize * DstSize),
        SrcSize - 1)

\* C25: the source pixel sampled for each pixel of the cell is the bilinear
\* blend of the corners taken in each coordinate, the y coordinate from
\* the y components of the four vectors.
C25_BilinearInBothCoordinates ==
  \A e \in Warped :
     \A p \in DstPixels :
        e.sampled[p] = <<Bilinear(e.quad, p, 1), Bilinear(e.quad, p, 2)>>

\* C26: when the cell is the rectangle of its bounding box, pixel <<x, y>>
\* is sampled at <<round(x * srcWidth / width), round(y * srcHeight /
\* height)>>, clamped to the raster.
C26_RectangleResampling ==
  \A e \in Warped :
     e.quad = RectQuad
       => \A p \in DstPixels :
             e.sampled[p] = <<Clamp(Round(p[1] * SrcSize, DstSize), SrcSize - 1),
                              Clamp(Round(p[2] * SrcSize, DstSize), SrcSize - 1)>>

\* a rectangular cell whose pixels fall between source pixels
C26_Witness ==
  \E e \in Warped :
     /\ e.quad = RectQuad
     /\ \E p \in DstPixels :
          /\ p[1] > 0 /\ p[2] > 0
          /\ (2 * p[1] * SrcSize) % (2 * DstSize) = DstSize
          /\ e.sampled[p] = <<Round(p[1] * SrcSize, DstSize),
                              Round(p[2] * SrcSize, DstSize)>>
          /\ e.after[p] = <<5, 6, 0, 255>>

\* the pixels the last step colorized
Colorized == {effects[j] : j \in {i \in 1..Len(effects) :
                                    effects[i].kind = "calculateNdvi"}}

\* v lies between a and b
Between(v, a, b) == (a <= v /\ v <= b) \/ (b <= v /\ v <= a)

\* C27: with index = (nir - red) / (nir + red): an index of 0 or less gives
\* the colour of the 0 stop, an index of 1 that of the 1.0 stop, an index
\* equal to a stop that stop's colour, and any index between two adjacent
\* stops channels between theirs; a pixel with both bands at zero stays
\* all-zero and the warp leaves the cell's pixels unpainted, any other
\* pixel is painted.
C27_ColorizerClampsAndInterpolates ==
  \A e \in Colorized :
     LET num == e.nir - e.red
         den == e.nir + e.red
     IN IF den = 0
        THEN /\ e.rgb = <<0, 0, 0>>
             /\ e.after = BlankImage
        ELSE /\ num <= 0 => e.rgb = <<234, 234, 234>>
             /\ num = den => e.rgb = <<0, 68, 0>>
             /\ \A k \in 1..Len(colormap) :
                   1000 * num = colormap[k][1] * den
                     => e.rgb = <<colormap[k][2], colormap[k][3], colormap[k][4]>>
             /\ \A k \in 1..(Len(colormap) - 1) :
                   (/\ 1000 * num >= colormap[k][1] * den
                    /\ 1000 * num <= colormap[k + 1][1] * den)
                     => \A c \in 1..3 :
                           Between(e.rgb[c], colormap[k][c + 1],
                                   colormap[k + 1][c + 1])
             /\ \A p \in DstPixels :
                   e.after[p] = <<e.rgb[1], e.rgb[2], e.rgb[3], 255>>

\* an index of -1
C27_Witness ==
  \E e \in Colorized :
     /\ e.nir = 0 /\ e.red > 0
     /\ e.rgb = <<234, 234, 234>>

\* the getImagesDates messages the last step posted
DatesPosted == {effects[j] : j \in {i \in 1..Len(effects) :
                                      effects[i].kind = "getImagesDates"}}

\* C28: the message of getImagesDates carries exactly the dates recorded
\* for the keys visible at that moment, a key being visible from the
\* createTile that names it until the unloadTile that names it: a key
\* becomes visible only in the step that receives a createTile for it and
\* that step makes it visible, and it stops being visible only in a step
\* that receives no call and leaves no controller for the key (unloadTile).
C28_DatesOfVisibleKeys ==
  /\ [](\A e \in DatesPosted :
          LET l == e.call.layer
          IN /\ \A k \in visibleCellKeys[l] :
                   cellDates[l][k].has => cellDates[l][k].dates \subseteq e.imagesDates
             /\ \A d \in e.imagesDates :
                   \E k \in visibleCellKeys[l] :
                      cellDates[l][k].has /\ d \in cellDates[l][k].dates)
  /\ [][\A l \in LoaderLayers :
          /\ \A k \in visibleCellKeys'[l] \ visibleCellKeys[l] :
                /\ Len(tasks') = Len(tasks) + 1
                /\ tasks'[Len(tasks')].layer = l
                /\ tasks'[Len(tasks')].key = k
          /\ (Len(tasks') > Len(tasks) /\ tasks'[Len(tasks')].layer = l)
                => tasks'[Len(tasks')].key \in visibleCellKeys'[l]
          /\ \A k \in visibleCellKeys[l] \ visibleCellKeys'[l] :
                /\ Len(tasks') = Len(tasks)
                /\ abortControllers'[l][k] = 0
                /\ effects' = <<>>]_vars

\* dates are recorded for an unloaded key and are not in the message, which
\* carries those of the key still visible
C28_Witness ==
  \E e \in DatesPosted :
     LET l == e.call.layer
     IN /\ e.imagesDates # {}
        /\ \E k \in Keys \ visibleCellKeys[l] :
              /\ cellDates[l][k].has
              /\ ~(cellDates[l][k].dates \subseteq e.imagesDates)

\* C29: the dates recorded for a key are those of a render that succeeded:
\* when the only createTile received for a key ends in its catch block,
\* no dates are recorded for the key.
C29_NoDatesFromFailedRender ==
  \A j \in 1..Len(effects) :
     (/\ effects[j].kind = "done"
      /\ effects[j].error # "ok"
      /\ \A t \in 1..Len(tasks) :
            t # effects[j].by
              => ~(tasks[t].layer = effects[j].call.layer
                   /\ tasks[t].key = effects[j].key))
       => ~cellDates[effects[j].call.layer][effects[j].key].has

\* C31: a batched search leaves the window objects of its callers as they
\* were passed: every call, the first of its batch included, holds the
\* window of its own key when fetchLatestS2 resumes and recomputes the
\* coverage, and at every other moment.
C31_WindowsUnchanged ==
  \A t \in 1..Len(tasks) : tasks[t].win = KeyWindow(tasks[t].key)

\* the ids of a list of scenes
Ids(items) == {items[j] : j \in 1..Len(items)}

\* C32: #stacCache is append-only and keyed by id: a merge keeps every
\* entry in its place and adds, after them, exactly the features whose id
\* was not cached, each once; a merge of features that are all cached
\* changes nothing, and merging the same features a second time changes
\* nothing.
C32_AppendOnlyById ==
  [][LET c == stacCache[SelectLayer]
         d == stacCache'[SelectLayer]
         f == effects'[1].features
     IN /\ Len(d) >= Len(c)
        /\ SubSeq(d, 1, Len(c)) = c
        /\ Cardinality(Ids(d)) = Len(d)
        /\ Ids(d) = Ids(c) \cup Ids(f)
        /\ Ids(f) \subseteq Ids(c) => d = c
        /\ (effects # <<>> /\ effects[1].features = f) => d = c]_vars

\* a merge of two features, one cached and one new
C32_Witness ==
  /\ effects # <<>>
  /\ effects[1].kind = "updateCachedItems"
  /\ effects[1].before = <<"sA", "sC">>
  /\ effects[1].features = <<"sB", "sA">>
  /\ stacCache[SelectLayer] = <<"sA", "sC", "sB">>

\* C33: every reader is opened on a url that carries a token obtained from
\* the token endpoint: no withRetry(fromUrl)(href) is called, and no entry
\* of #tiffCache is made, while mspcSasToken is still null.
C33_NoOpenWithNullToken ==
  /\ \A rk \in DOMAIN readers : rk[3] # 0
  /\ \A l \in LoaderLayers : \A u \in Urls : tiffCache[l][u] # 0

\* the steps of loadAndDrawTile on a scene that the last step took
SceneSteps == {j \in 1..Len(effects) :
                 /\ effects[j].by # 0
                 /\ effects[j].kind \in {"fromUrl", "readRasters", "warpCellImage"}}

\* C34: one createTile works on its scenes one at a time, in the order the
\* catalog returned them: every open, read and warp of a step is for the
\* scene the call is on or for the next one, it is for the next one only
\* after the warp of the scene it was on (or at the first scene), nothing
\* is done for a scene after its warp, and a call moves on by one scene
\* and only in the step that warps the scene it leaves.
C34_ScenesOneAfterAnother ==
  [][\A t \in 1..Len(tasks) :
       LET cur == tasks[t].idx
           mine == {j \in 1..Len(effects') :
                      /\ effects'[j].by = t
                      /\ effects'[j].kind \in {"fromUrl", "readRasters", "warpCellImage"}}
           warped(i, j) == \E w \in mine : /\ w < j
                                           /\ effects'[w].kind = "warpCellImage"
                                           /\ effects'[w].call.idx = i
       IN /\ \A j \in mine :
                LET i == effects'[j].call.idx
                IN /\ i \in {cur, cur + 1}
                   /\ i >= 1 /\ i <= Len(effects'[j].call.stacItems)
                   /\ i = cur + 1 => (cur = 0 \/ warped(cur, j))
                   /\ ~warped(i, j)
          /\ tasks'[t].idx \in {0, cur, cur + 1}
          /\ (tasks'[t].idx = cur + 1 /\ cur > 0) =>
                \E j \in mine : /\ effects'[j].kind = "warpCellImage"
                                /\ effects'[j].call.idx = cur]_vars

\* the red band of the second scene is opened in the step that warped the
\* first
C34_Witness ==
  \E w \in SceneSteps : \E j \in SceneSteps :
     /\ w < j
     /\ effects[w].by = effects[j].by
     /\ effects[w].call.layer \in NdviLayers
     /\ effects[w].kind = "warpCellImage" /\ effects[w].call.idx = 1
     /\ effects[j].kind = "fromUrl" /\ effects[j].call.idx = 2
     /\ effects[j].call.band = 1

\* C36: when the search of a batch is over, answered or failed, the promise
\* of every caller of the batch settles: in the step in which the batch
\* leaves the searches in flight none of its callers is left waiting on it.
C36_BatchEndSettlesCallers ==
  [][\A l \in LoaderLayers : \A b \in batches[l] \ batches'[l] :
       \A j \in 1..Len(b.callers) : tasks'[b.callers[j]].pc # "waitBatch"]_vars

\* C38: an open that failed after its retries is not served again: a call
\* that starts to await openGeoTiffFile(url) is never given a reader whose
\* open has already failed.
C38_FailedOpenNotReused ==
  [][\A t \in 1..Len(tasks) :
       (/\ tasks'[t].pc = "waitOpen"
        /\ tasks[t].pc = "waitOpen" => ReaderKey(tasks[t]) # ReaderKey(tasks'[t]))
         => readers'[ReaderKey(tasks'[t])] # "failed"]_vars

\* the createTile calls of loader l for key k that have not returned
PendingFor(l, k) ==
  {t \in 1..Len(tasks) : /\ tasks[t].layer = l /\ tasks[t].key = k
                         /\ tasks[t].pc \notin {"finished", "rejected", "noLoader"}}

\* C39: unloadTile(key) cancels every createTile of the key that is still
\* in flight: after the step that takes the key out of #visibleCellKeys the
\* signal of each pending call for it is aborted; and while calls for a key
\* are pending, #abortControllers holds for it the controller of the most
\* recent of them.
C39_UnloadAbortsEveryCall ==
  [][\A l \in LoaderLayers :
       /\ \A k \in visibleCellKeys[l] \ visibleCellKeys'[l] :
             \A t \in PendingFor(l, k) : tasks'[t].aborted
       /\ \A k \in visibleCellKeys[l] : \A t \in PendingFor(l, k) :
             /\ abortControllers[l][k] \in PendingFor(l, k)
             /\ abortControllers[l][k] >= t]_vars

\* the places of call t in the pending list of catalog l
Queued(l, t) == {j \in 1..Len(pendingQueries[l]) : pendingQueries[l][j] = t}

\* the places of call t in the batches of catalog l whose search is in flight
Dispatched(l, t) ==
  {<<b, j>> \in batches[l] \X (1..MaxTasks) : j <= Len(b.callers) /\ b.callers[j] = t}

\* C37: a batching timer is armed exactly while the pending list is not
\* empty, and never more than one; a query is pushed onto the list with a
\* timer armed, stays there until a timer fires, and the firing moves the
\* whole list into one new batch: no query is in two places, none is
\* dropped, and one pushed while a batch is in flight waits for a timer of
\* its own.
C37_EveryQueryInOneBatch ==
  /\ [](\A l \in LoaderLayers :
          /\ batchTimers[l] <= 1
          /\ pendingQueries[l] # <<>> <=> batchTimers[l] = 1
          /\ \A t \in 1..Len(tasks) :
                Cardinality(Queued(l, t)) + Cardinality(Dispatched(l, t)) <= 1)
  /\ [][\A l \in LoaderLayers :
          /\ \A t \in 1..Len(tasks') :
                (/\ tasks'[t].layer = l
                 /\ tasks'[t].pc = "waitBatch"
                 /\ t <= Len(tasks) => tasks[t].pc # "waitBatch")
                  => /\ pendingQueries'[l][Len(pendingQueries'[l])] = t
                     /\ batchTimers'[l] = 1
          /\ IF batchTimers'[l] < batchTimers[l]
             THEN /\ pendingQueries'[l] = <<>>
                  /\ \E b \in batches'[l] \ batches[l] :
                        /\ b.callers = pendingQueries[l]
                        /\ batches'[l] = batches[l] \cup {b}
             ELSE /\ Len(pendingQueries'[l]) >= Len(pendingQueries[l])
                  /\ SubSeq(pendingQueries'[l], 1, Len(pendingQueries[l]))
                        = pendingQueries[l]
                  /\ batches'[l] \subseteq batches[l]]_vars

\* a query pushed while the search of the previous batch is in flight
C37_Witness ==
  \E l \in LoaderLayers :
     /\ batches[l] # {}
     /\ pendingQueries[l] # <<>>
     /\ batchTimers[l] = 1

\* C40: the refresh of the token goes on for ever and is never doubled: at
\* any time exactly one run of updateMspcSasToken is awaiting its fetch or
\* scheduled by a timer; a run that ends arms exactly one timer, of 45
\* minutes if it set the token and of 1 second if it failed, and a failed
\* run leaves the token as it was; a timer that fires starts one run.
C40_OneRefreshAtATime ==
  /\ [](tokenRuns + Len(tokenTimers) = 1)
  /\ [][/\ tokenRuns' < tokenRuns =>
             /\ tokenRuns' = tokenRuns - 1
             /\ \/ /\ mspcSasToken' # mspcSasToken
                   /\ tokenTimers' = Append(tokenTimers, 45 * 60 * 1000)
                \/ /\ mspcSasToken' = mspcSasToken
                   /\ tokenTimers' = Append(tokenTimers, 1000)
        /\ tokenRuns' > tokenRuns =>
             /\ tokenRuns' = tokenRuns + 1
             /\ Len(tokenTimers') = Len(tokenTimers) - 1
             /\ mspcSasToken' = mspcSasToken
        /\ tokenRuns' = tokenRuns =>
             /\ tokenTimers' = tokenTimers
             /\ mspcSasToken' = mspcSasToken]_vars

\* a run has failed with a token held: the token is kept and the retry is
\* one second away
C40_Witness ==
  /\ mspcSasToken > 0
  /\ tokenRuns = 0
  /\ tokenTimers = <<1000>>

\* the 'done' messages of the next step for key k of layer l, by position
DonesNext(l, k) ==
  {j \in 1..Len(effects') : /\ effects'[j].kind = "done"
                            /\ effects'[j].call.layer = l
                            /\ effects'[j].key = k}

\* C35: the doneCallback of a tile is called with the result of its own
\* request only: when a 'done' message reaches the map while a callback is
\* registered for its key, the message was posted by the createTile that
\* registered it, and the entry is gone afterwards, so that no callback is
\* called twice.
C35_DoneCompletesItsOwnRequest ==
  [][\A l \in LoaderLayers : \A k \in Keys :
       (tileInfo[l][k] # 0 /\ DonesNext(l, k) # {})
         => /\ \A j \in DonesNext(l, k) :
                  (\A i \in DonesNext(l, k) : j <= i)
                    => effects'[j].by = tileInfo[l][k]
            /\ tileInfo'[l][k] = 0]_vars

====
